---- MODULE Spec2Model ----
(***************************************************************************)
(* Risk Behavior Analysis engine of proje.tools.                           *)
(*                                                                         *)
(* JavaScript numbers are modelled as exact rationals <<n, d>> (d > 0, in  *)
(* lowest terms); <<0, 0>> is NaN.  Objects live on a heap (a sequence of  *)
(* records, a reference is an index) so that aliasing between the caller's *)
(* input and the run's working copies is visible.                          *)
(***************************************************************************)
EXTENDS Integers, Sequences, FiniteSets, TLC

\* ------------------------------------------------------------ numbers

Abs(x) == IF x < 0 THEN -x ELSE x

RECURSIVE GCD(_, _)
GCD(a, b) == IF b = 0 THEN a ELSE GCD(b, a % b)

LCM(a, b) == (a \div GCD(a, b)) * b

NaN == <<0, 0>>

IsNaN(a) == a[2] = 0

\* n/d in lowest terms, d > 0
Rat(n, d) ==
    IF d = 0 THEN NaN
    ELSE LET g == GCD(Abs(n), Abs(d))
             s == IF d < 0 THEN -1 ELSE 1
         IN  <<s * (n \div g), s * (d \div g)>>

R(n) == <<n, 1>>

RAdd(a, b) ==
    IF IsNaN(a) \/ IsNaN(b) THEN NaN
    ELSE LET L == LCM(a[2], b[2])
         IN  Rat(a[1] * (L \div a[2]) + b[1] * (L \div b[2]), L)

RNeg(a) == IF IsNaN(a) THEN NaN ELSE <<-a[1], a[2]>>

RSub(a, b) == RAdd(a, RNeg(b))

RMul(a, b) ==
    IF IsNaN(a) \/ IsNaN(b) THEN NaN
    ELSE LET g1 == GCD(Abs(a[1]), b[2])
             g2 == GCD(Abs(b[1]), a[2])
         IN  Rat((a[1] \div g1) * (b[1] \div g2), (a[2] \div g2) * (b[2] \div g1))

\* a / b as JavaScript divides: 0/0 is NaN (x/0 with x # 0 is never evaluated
\* by the modelled code on finite inputs)
RDiv(a, b) ==
    IF IsNaN(a) \/ IsNaN(b) \/ b[1] = 0 THEN NaN
    ELSE RMul(a, Rat(b[2], b[1]))

\* comparisons are false when an operand is NaN, as in JavaScript
RLt(a, b) ==
    /\ ~IsNaN(a)
    /\ ~IsNaN(b)
    /\ LET L == LCM(a[2], b[2])
       IN  a[1] * (L \div a[2]) < b[1] * (L \div b[2])

RLe(a, b) == ~IsNaN(a) /\ ~IsNaN(b) /\ ~RLt(b, a)

RGt(a, b) == RLt(b, a)

\* Math.min / Math.max: NaN if an argument is NaN
RMin(a, b) == IF IsNaN(a) \/ IsNaN(b) THEN NaN ELSE IF RLt(b, a) THEN b ELSE a

RMax(a, b) == IF IsNaN(a) \/ IsNaN(b) THEN NaN ELSE IF RLt(a, b) THEN b ELSE a

RECURSIVE RSumSeq(_)
RSumSeq(s) == IF s = <<>> THEN R(0) ELSE RAdd(RSumSeq(SubSeq(s, 1, Len(s) - 1)), s[Len(s)])

\* Math.max(1, ...s)
RECURSIVE RMaxSeq(_, _)
RMaxSeq(first, s) == IF s = <<>> THEN first ELSE RMaxSeq(RMax(first, Head(s)), Tail(s))

\* Math.ceil of a rational that is not NaN
Ceil(a) == LET q == a[1] \div a[2] IN IF q * a[2] = a[1] THEN q ELSE q + 1

\* ------------------------------------------------------------ arrays

Includes(s, x) == \E i \in DOMAIN s : s[i] = x

\* Optional values (x?: T): <<>> is undefined, <<v>> is v
Undefined == <<>>

Some(v) == <<v>>

\* x ?? dflt
OrElse(x, dflt) == IF x = Undefined THEN dflt ELSE x[1]

\* ------------------------------------------------------------ strings and dates

\* A date string is [kind, t]: "empty" is '', "blank" is whitespace only,
\* "text" is text that new Date() cannot parse, "date" is a parsable
\* date or date-time, t hours after the epoch.
Truthy(str) == str.kind # "empty"

TrimIsEmpty(str) == str.kind \in {"empty", "blank"}

HoursPerDay == 24

\* new Date(str).getTime() is NaN
ParsesToNaN(str) == str.kind # "date"

\* ------------------------------------------------------------ calculations.ts

\* without Math.max(0, ...)
calculateDurationDaysUnclamped(start, end) ==
    IF ~Truthy(start) \/ ~Truthy(end) \/ TrimIsEmpty(start) \/ TrimIsEmpty(end)
    THEN R(0)
    ELSE IF ParsesToNaN(start) \/ ParsesToNaN(end)
    THEN R(0)
    ELSE R(Ceil(Rat(end.t - start.t, HoursPerDay)))

calculateDurationDays(start, end) ==
    IF ~Truthy(start) \/ ~Truthy(end) \/ TrimIsEmpty(start) \/ TrimIsEmpty(end)
    THEN R(0)
    ELSE IF ParsesToNaN(start) \/ ParsesToNaN(end)
    THEN R(0)
    ELSE LET diffTime == end.t - start.t
         IN  RMax(R(0), R(Ceil(Rat(diffTime, HoursPerDay))))

\* { ...activity, durationDays, baselineCost: activity.cost }
enrichActivity(activity) ==
    LET durationDays ==
            IF activity.level = 2 /\ Truthy(activity.start) /\ Truthy(activity.end)
            THEN calculateDurationDays(activity.start, activity.end)
            ELSE R(0)
    IN  [activity EXCEPT !.durationDays = Some(durationDays),
                         !.baselineCost = Some(activity.cost)]

enrichActivities(activities) == [i \in DOMAIN activities |-> enrichActivity(activities[i])]

\* without && a.level === 2
AffectedAnyLevel(risk, activities) ==
    SelectSeq(activities, LAMBDA a : Includes(risk.affectedActivities, a.id))

\* activities.filter(a => risk.affectedActivities.includes(a.id) && a.level === 2)
AffectedLevel2(risk, activities) ==
    SelectSeq(activities, LAMBDA a : Includes(risk.affectedActivities, a.id) /\ a.level = 2)

\* the reduce callback of getAffectedDurationSum
DurationTerm(a) ==
    IF a.level = 2 /\ Truthy(a.start) /\ Truthy(a.end)
    THEN OrElse(a.durationDays, calculateDurationDays(a.start, a.end))
    ELSE R(0)

getAffectedDurationSum(risk, activities) ==
    LET affected == AffectedLevel2(risk, activities)
    IN  RSumSeq([i \in DOMAIN affected |-> DurationTerm(affected[i])])

getAffectedCostSum(risk, activities) ==
    LET affected == AffectedLevel2(risk, activities)
    IN  RSumSeq([i \in DOMAIN affected |-> OrElse(affected[i].baselineCost, affected[i].cost)])

calculateTimeImpact(risk, affectedDurationSum) ==
    LET addedDays == RMul(affectedDurationSum, RDiv(risk.timeImpactPercent, R(100)))
    IN  [addedDays |-> addedDays,
         expectedTimeImpact |-> RMul(addedDays, RDiv(risk.probability, R(100)))]

\* the time percent used for the cost
calculateCostImpactFromTimePercent(risk, affectedCostSum) ==
    LET addedCost == RMul(affectedCostSum, RDiv(risk.timeImpactPercent, R(100)))
    IN  [addedCost |-> addedCost,
         expectedCostImpact |-> RMul(addedCost, RDiv(risk.probability, R(100)))]

calculateCostImpact(risk, affectedCostSum) ==
    LET addedCost == RMul(affectedCostSum, RDiv(risk.costImpactPercent, R(100)))
    IN  [addedCost |-> addedCost,
         expectedCostImpact |-> RMul(addedCost, RDiv(risk.probability, R(100)))]

calculateScopeChangeRatio(risk) == RDiv(risk.scopeImpactPercent, R(100))

calculateSensitivity(risk, affectedDurationSum, affectedCostSum, expectedTimeImpact, expectedCostImpact) ==
    [probabilitySensitivity |->
        IF RGt(risk.probability, R(0)) THEN RDiv(expectedCostImpact, risk.probability) ELSE R(0),
     timeImpactSensitivity |-> RDiv(affectedDurationSum, R(100)),
     costImpactSensitivity |-> RDiv(affectedCostSum, R(100)),
     scopeImpactSensitivity |-> RDiv(risk.scopeImpactPercent, R(100))]

\* allRisks.filter(r => r.relatedRisks.some(rel => rel.riskId === id)).length
IncomingCount(id, allRisks) ==
    Cardinality({i \in DOMAIN allRisks :
                    \E k \in DOMAIN allRisks[i].relatedRisks :
                        allRisks[i].relatedRisks[k].riskId = id})

Degree(risk, allRisks) == Len(risk.relatedRisks) + IncomingCount(risk.id, allRisks)

calculateDependencyCentrality(risk, allRisks) ==
    LET degree == Degree(risk, allRisks)
        maxDegree == RMaxSeq(R(1), [i \in DOMAIN allRisks |-> R(Degree(allRisks[i], allRisks))])
    IN  RMul(RDiv(R(degree), maxDegree), R(100))

calculateTimeSensitivityFlag(risk, activities) ==
    IF \E i \in DOMAIN activities :
          Includes(risk.affectedActivities, activities[i].id) /\ activities[i].level = 1
    THEN R(1)
    ELSE R(0)

\* the two outcomes exchanged
calculateDetectabilityScoreInverted(risk) ==
    IF Truthy(risk.trigger) /\ ~TrimIsEmpty(risk.trigger) THEN Rat(1, 2) ELSE R(1)

\* risk.trigger && risk.trigger.trim().length > 0 ? 1 : 0.5
calculateDetectabilityScore(risk) ==
    IF Truthy(risk.trigger) /\ ~TrimIsEmpty(risk.trigger) THEN R(1) ELSE Rat(1, 2)

normalizeValue(value, maxValue) ==
    IF maxValue = R(0) THEN R(0) ELSE RMul(RDiv(value, maxValue), R(100))

\* the weighted sum before clamping
RawBehaviorScore(risk, expectedTimeImpact, expectedCostImpact, allRisks, activities, maxExpectedTimeImpact, maxExpectedCostImpact) ==
    LET normalizedTimeImpact == normalizeValue(expectedTimeImpact, maxExpectedTimeImpact)
        normalizedCostImpact == normalizeValue(expectedCostImpact, maxExpectedCostImpact)
        dependencyCentrality == calculateDependencyCentrality(risk, allRisks)
        timeSensitivityFlag == calculateTimeSensitivityFlag(risk, activities)
        detectabilityScore == calculateDetectabilityScore(risk)
    IN  RSub(RAdd(RAdd(RAdd(RMul(Rat(35, 100), normalizedTimeImpact),
                            RMul(Rat(25, 100), normalizedCostImpact)),
                       RMul(Rat(2, 10), dependencyCentrality)),
                  RMul(RMul(Rat(15, 100), timeSensitivityFlag), R(100))),
             RMul(RMul(Rat(5, 100), detectabilityScore), R(100)))

\* Math.max(0, Math.min(100, behaviorScore))
Clamp0to100(x) == RMax(R(0), RMin(R(100), x))

\* without the clamp
calculateBehaviorScoreUnclamped(risk, expectedTimeImpact, expectedCostImpact, allRisks, activities, maxExpectedTimeImpact, maxExpectedCostImpact) ==
    RawBehaviorScore(risk, expectedTimeImpact, expectedCostImpact, allRisks,
                     activities, maxExpectedTimeImpact, maxExpectedCostImpact)

calculateBehaviorScore(risk, expectedTimeImpact, expectedCostImpact, allRisks, activities, maxExpectedTimeImpact, maxExpectedCostImpact) ==
    Clamp0to100(RawBehaviorScore(risk, expectedTimeImpact, expectedCostImpact, allRisks,
                                 activities, maxExpectedTimeImpact, maxExpectedCostImpact))

calculateSingleRisk(risk, activities, allRisks, maxExpectedTimeImpact, maxExpectedCostImpact) ==
    LET affectedDurationSum == getAffectedDurationSum(risk, activities)
        affectedCostSum == getAffectedCostSum(risk, activities)
        time == calculateTimeImpact(risk, affectedDurationSum)
        cost == calculateCostImpact(risk, affectedCostSum)
    IN  [riskId |-> risk.id,
         title |-> risk.title,
         affectedDurationSum |-> affectedDurationSum,
         affectedCostSum |-> affectedCostSum,
         addedDays |-> time.addedDays,
         expectedTimeImpact |-> time.expectedTimeImpact,
         addedCost |-> cost.addedCost,
         expectedCostImpact |-> cost.expectedCostImpact,
         scopeChangeRatio |-> calculateScopeChangeRatio(risk),
         propagatedProbability |-> risk.probability,
         behaviorScore |-> calculateBehaviorScore(risk, time.expectedTimeImpact,
                               cost.expectedCostImpact, allRisks, activities,
                               maxExpectedTimeImpact, maxExpectedCostImpact),
         sensitivity |-> calculateSensitivity(risk, affectedDurationSum, affectedCostSum,
                               time.expectedTimeImpact, cost.expectedCostImpact)]

\* risks.filter(r => riskIds.includes(r.id))
SelectedRisks(riskIds, risks) == SelectSeq(risks, LAMBDA r : Includes(riskIds, r.id))

\* the union instead of the intersection: some() for every()
AnyRiskActivities(selectedRisks, activities) ==
    SelectSeq(activities,
              LAMBDA a : /\ \E i \in DOMAIN selectedRisks :
                              Includes(selectedRisks[i].affectedActivities, a.id)
                         /\ a.level = 2)

\* activities affected by every selected risk, Level 2 only
CommonActivities(selectedRisks, activities) ==
    SelectSeq(activities,
              LAMBDA a : /\ \A i \in DOMAIN selectedRisks :
                              Includes(selectedRisks[i].affectedActivities, a.id)
                         /\ a.level = 2)

PercentCap == 200

\* the sum without the cap
UncappedSum(percents) == RSumSeq(percents)

\* Math.min(200, selectedRisks.reduce((sum, r) => sum + r.<x>ImpactPercent, 0))
CappedSum(percents) == RMin(R(PercentCap), RSumSeq(percents))

calculateCombinedImpact(riskIds, risks, activities) ==
    LET selectedRisks == SelectedRisks(riskIds, risks)
        commonActivities == CommonActivities(selectedRisks, activities)
        combinedTimeImpactPercent ==
            CappedSum([i \in DOMAIN selectedRisks |-> selectedRisks[i].timeImpactPercent])
        combinedCostImpactPercent ==
            CappedSum([i \in DOMAIN selectedRisks |-> selectedRisks[i].costImpactPercent])
        affectedDurationSum ==
            RSumSeq([i \in DOMAIN commonActivities |-> DurationTerm(commonActivities[i])])
        affectedCostSum ==
            RSumSeq([i \in DOMAIN commonActivities |->
                        OrElse(commonActivities[i].baselineCost, commonActivities[i].cost)])
        avgProbability ==
            RDiv(RSumSeq([i \in DOMAIN selectedRisks |-> selectedRisks[i].probability]),
                 R(Len(selectedRisks)))
        combinedAddedDays == RMul(affectedDurationSum, RDiv(combinedTimeImpactPercent, R(100)))
        combinedAddedCost == RMul(affectedCostSum, RDiv(combinedCostImpactPercent, R(100)))
    IN  IF Len(commonActivities) = 0
        THEN [riskIds |-> riskIds,
              combinedTimeImpactPercent |-> R(0),
              combinedCostImpactPercent |-> R(0),
              combinedExpectedTimeImpact |-> R(0),
              combinedExpectedCostImpact |-> R(0)]
        ELSE [riskIds |-> riskIds,
              combinedTimeImpactPercent |-> combinedTimeImpactPercent,
              combinedCostImpactPercent |-> combinedCostImpactPercent,
              combinedExpectedTimeImpact |-> RMul(combinedAddedDays, RDiv(avgProbability, R(100))),
              combinedExpectedCostImpact |-> RMul(combinedAddedCost, RDiv(avgProbability, R(100)))]

\* ------------------------------------------------------------ sorting

\* insert e = [key, item] into a sequence ordered by key descending, after
\* every element whose key is not smaller (Array.prototype.sort is stable)
RECURSIVE InsertByKeyDesc(_, _)
InsertByKeyDesc(sorted, e) ==
    IF sorted = <<>> THEN <<e>>
    ELSE IF RLt(Head(sorted).key, e.key) THEN <<e>> \o sorted
    ELSE <<Head(sorted)>> \o InsertByKeyDesc(Tail(sorted), e)

\* the pairs left in their order
KeepPairs(pairs) == pairs

RECURSIVE SortPairsDesc(_)
SortPairsDesc(pairs) ==
    IF pairs = <<>> THEN <<>>
    ELSE InsertByKeyDesc(SortPairsDesc(SubSeq(pairs, 1, Len(pairs) - 1)), pairs[Len(pairs)])

ImpactSum(a) == RAdd(a.expectedTimeImpact, a.expectedCostImpact)

\* [...analyses].sort((a, b) => impactB - impactA)
SortByExpectedImpact(analyses) ==
    LET sorted == SortPairsDesc([i \in DOMAIN analyses |->
                                    [key |-> ImpactSum(analyses[i]), item |-> analyses[i]]])
    IN  [i \in DOMAIN sorted |-> sorted[i].item]

\* [...analyses].sort((a, b) => b.behaviorScore - a.behaviorScore)
SortByBehaviorScore(analyses) ==
    LET sorted == SortPairsDesc([i \in DOMAIN analyses |->
                                    [key |-> analyses[i].behaviorScore, item |-> analyses[i]]])
    IN  [i \in DOMAIN sorted |-> sorted[i].item]

\* ------------------------------------------------------------ analyzer.ts: state

VARIABLES
    heap,                   \* the objects: heap[ref] is a risk or an activity record
    callerView,             \* the caller's objects as they were when analyze was called
    inputActivities,        \* input.activities, references
    inputRisks,             \* input.risks, references
    enableMonteCarlo,
    monteCarloIterations,
    pc,                     \* position in analyzeRiskBehavior
    enrichedActivities,     \* references
    initialAnalyses,
    maxExpectedTimeImpact,
    maxExpectedCostImpact,
    perRiskAnalysis,
    propagatedRisks,        \* references
    pass,                   \* the relaxation's loop counter
    propagationResults,
    combinedScenarios,
    topRisksByBehaviorScore,
    topRisksByExpectedImpact,
    costResults,            \* Monte Carlo trial series
    durationResults,
    monteCarlo,
    errors,                 \* what validateInput returned, undefined before it has
    callStack,              \* the activations of propagateRisk, innermost last
    propagationResult,      \* what the outermost propagateRisk returned
    page,                   \* the useState values of RiskBehaviorAnalysisPage
    form                    \* the useState values of Step2Risks

vars == <<heap, callerView, inputActivities, inputRisks, enableMonteCarlo,
          monteCarloIterations, pc, enrichedActivities, initialAnalyses,
          maxExpectedTimeImpact, maxExpectedCostImpact, perRiskAnalysis,
          propagatedRisks, pass, propagationResults, combinedScenarios,
          topRisksByBehaviorScore, topRisksByExpectedImpact, costResults,
          durationResults, monteCarlo, errors, callStack, propagationResult,
          page, form>>

\* what validateInput and propagateRisk work on
libraryVars == <<errors, callStack, propagationResult>>

\* the wizard's state, which the engine does not see
pageVars == <<page, form>>

inputVars == <<callerView, inputActivities, inputRisks, enableMonteCarlo, monteCarloIterations,
               pageVars>>

\* part_003 lines 795-806 and 818-838, the fields that reach the engine
EmptyForm ==
    [title |-> [kind |-> "empty", t |-> 0], probability |-> <<0, 1>>,
     relatedRisks |-> <<>>, affectedActivities |-> <<>>]

\* page.tsx lines 36-39 and part_003 lines 794-806: the wizard as it mounts
PageLoaded ==
    /\ page = [currentStep |-> 0, activities |-> <<>>, risks |-> <<>>, analysisOutput |-> <<>>]
    /\ form = [editingIndex |-> 0, formData |-> EmptyForm, thrown |-> FALSE]

mcVars == <<costResults, durationResults, monteCarlo>>

Deref(h, refs) == [i \in DOMAIN refs |-> h[refs[i]]]

\* references of k objects allocated at the end of a heap of the given length
NewRefs(heapLen, k) == [i \in 1..k |-> heapLen + i]

\* ------------------------------------------------------------ analyzer.ts: steps

\* Step 1: const enrichedActivities = enrichActivities(input.activities)
EnrichStep ==
    /\ pc = "start"
    /\ LET enriched == enrichActivities(Deref(heap, inputActivities))
       IN  /\ heap' = heap \o enriched
           /\ enrichedActivities' = NewRefs(Len(heap), Len(enriched))
    /\ pc' = "enriched"
    /\ UNCHANGED <<inputVars, libraryVars, initialAnalyses, maxExpectedTimeImpact, maxExpectedCostImpact,
                   perRiskAnalysis, propagatedRisks, pass, propagationResults,
                   combinedScenarios, topRisksByBehaviorScore, topRisksByExpectedImpact,
                   mcVars>>

TemporaryMaxTime == 1000

TemporaryMaxCost == 100000

\* Steps 2 and 3: the initial pass with temporary maxima, then the true maxima
InitialPass ==
    /\ pc = "enriched"
    /\ LET risks == Deref(heap, inputRisks)
           activities == Deref(heap, enrichedActivities)
           analyses == [i \in DOMAIN risks |->
                           calculateSingleRisk(risks[i], activities, risks,
                                               R(TemporaryMaxTime), R(TemporaryMaxCost))]
       IN  /\ initialAnalyses' = analyses
           /\ maxExpectedTimeImpact' =
                  RMaxSeq(R(1), [i \in DOMAIN analyses |-> analyses[i].expectedTimeImpact])
           /\ maxExpectedCostImpact' =
                  RMaxSeq(R(1), [i \in DOMAIN analyses |-> analyses[i].expectedCostImpact])
    /\ pc' = "maxima"
    /\ UNCHANGED <<heap, inputVars, libraryVars, enrichedActivities, perRiskAnalysis, propagatedRisks, pass,
                   propagationResults, combinedScenarios, topRisksByBehaviorScore,
                   topRisksByExpectedImpact, mcVars>>

\* Step 4: recalculate with the correct maxima
ScorePass ==
    /\ pc = "maxima"
    /\ LET risks == Deref(heap, inputRisks)
           activities == Deref(heap, enrichedActivities)
       IN  perRiskAnalysis' =
               [i \in DOMAIN risks |->
                   calculateSingleRisk(risks[i], activities, risks,
                                       maxExpectedTimeImpact, maxExpectedCostImpact)]
    /\ pc' = "scored"
    /\ UNCHANGED <<heap, inputVars, libraryVars, enrichedActivities, initialAnalyses, maxExpectedTimeImpact,
                   maxExpectedCostImpact, propagatedRisks, pass, propagationResults,
                   combinedScenarios, topRisksByBehaviorScore, topRisksByExpectedImpact,
                   mcVars>>

\* no copy: the working roster is the input roster
ShareRoster(h, refs) == [heap |-> h, refs |-> refs]

\* input.risks.map((r) => ({ ...r })): one new object per risk.  The copy is
\* shallow (relatedRisks and affectedActivities are shared with the input),
\* which no later step writes to.
CopyRoster(h, refs) ==
    [heap |-> h \o Deref(h, refs), refs |-> NewRefs(Len(h), Len(refs))]

\* Step 5, line 78
CopyStep ==
    /\ pc = "scored"
    /\ LET copy == CopyRoster(heap, inputRisks)
       IN  /\ heap' = copy.heap
           /\ propagatedRisks' = copy.refs
    /\ pass' = 0
    /\ pc' = "relax"
    /\ UNCHANGED <<inputVars, libraryVars, enrichedActivities, initialAnalyses, maxExpectedTimeImpact,
                   maxExpectedCostImpact, perRiskAnalysis, propagationResults,
                   combinedScenarios, topRisksByBehaviorScore, topRisksByExpectedImpact,
                   mcVars>>

\* propagatedRisks.find((r) => r.id === id): its reference, 0 if none
FindRiskRef(h, refs, id) ==
    IF \E i \in DOMAIN refs : h[refs[i]].id = id
    THEN refs[CHOOSE i \in DOMAIN refs :
                 /\ h[refs[i]].id = id
                 /\ \A j \in 1..(i - 1) : h[refs[j]].id # id]
    ELSE 0

\* relatedRisks.find((rel) => rel.riskId === id): its index, 0 if none
FindRelation(relatedRisks, id) ==
    IF \E k \in DOMAIN relatedRisks : relatedRisks[k].riskId = id
    THEN CHOOSE k \in DOMAIN relatedRisks :
             /\ relatedRisks[k].riskId = id
             /\ \A j \in 1..(k - 1) : relatedRisks[j].riskId # id
    ELSE 0

DefaultStrength == Rat(3, 10)

SignificanceThreshold == Rat(1, 10)

\* without Math.min(100, ...)
ApplyRelationUncapped(h, currentRef, otherRef, id) ==
    LET otherRisk == h[otherRef]
        k == FindRelation(otherRisk.relatedRisks, id)
    IN  IF k = 0 THEN h
        ELSE LET strength == OrElse(otherRisk.relatedRisks[k].strength, DefaultStrength)
                 probabilityIncrease == RMul(strength, otherRisk.probability)
             IN  IF RGt(probabilityIncrease, SignificanceThreshold)
                 THEN [h EXCEPT ![currentRef].probability =
                          RAdd(h[currentRef].probability, probabilityIncrease)]
                 ELSE h

\* lines 88-100: the effect of one otherRisk on currentRisk
ApplyRelation(h, currentRef, otherRef, id) ==
    LET otherRisk == h[otherRef]
        k == FindRelation(otherRisk.relatedRisks, id)
    IN  IF k = 0 THEN h
        ELSE LET strength == OrElse(otherRisk.relatedRisks[k].strength, DefaultStrength)
                 probabilityIncrease == RMul(strength, otherRisk.probability)
             IN  IF RGt(probabilityIncrease, SignificanceThreshold)
                 THEN [h EXCEPT ![currentRef].probability =
                          RMin(R(100), RAdd(h[currentRef].probability, probabilityIncrease))]
                 ELSE h

\* the loop of lines 87-101 without the first risk of the roster
RECURSIVE SkipFirstRisk(_, _, _, _, _)
SkipFirstRisk(h, refs, currentRef, id, k) ==
    IF k > Len(refs) THEN h
    ELSE SkipFirstRisk(IF k = 1 THEN h ELSE ApplyRelation(h, currentRef, refs[k], id),
                       refs, currentRef, id, k + 1)

\* lines 87-101: for (const otherRisk of propagatedRisks), from index k on
RECURSIVE ForEachOtherRisk(_, _, _, _, _)
ForEachOtherRisk(h, refs, currentRef, id, k) ==
    IF k > Len(refs) THEN h
    ELSE ForEachOtherRisk(ApplyRelation(h, currentRef, refs[k], id), refs, currentRef, id, k + 1)

\* lines 82-102: for (const risk of input.risks), from index i on
RECURSIVE ForEachRisk(_, _, _, _)
ForEachRisk(h, inRefs, refs, i) ==
    IF i > Len(inRefs) THEN h
    ELSE LET id == h[inRefs[i]].id
             currentRef == FindRiskRef(h, refs, id)
         IN  ForEachRisk(IF currentRef = 0 THEN h
                         ELSE ForEachOtherRisk(h, refs, currentRef, id, 1),
                         inRefs, refs, i + 1)

Passes == 3

\* one iteration of: for (let pass = 0; pass < 3; pass++)
RelaxationPass ==
    /\ pc = "relax"
    /\ pass < Passes
    /\ heap' = ForEachRisk(heap, inputRisks, propagatedRisks, 1)
    /\ pass' = pass + 1
    /\ UNCHANGED <<inputVars, libraryVars, pc, enrichedActivities, initialAnalyses, maxExpectedTimeImpact,
                   maxExpectedCostImpact, perRiskAnalysis, propagatedRisks, propagationResults,
                   combinedScenarios, topRisksByBehaviorScore, topRisksByExpectedImpact,
                   mcVars>>

\* the first analysis, whatever its id
FirstAnalysisIndex(analyses, id) == IF analyses = <<>> THEN 0 ELSE 1

\* perRiskAnalysis.findIndex((a) => a.riskId === id), 0 if none
FindAnalysisIndex(analyses, id) ==
    IF \E i \in DOMAIN analyses : analyses[i].riskId = id
    THEN CHOOSE i \in DOMAIN analyses :
             /\ analyses[i].riskId = id
             /\ \A j \in 1..(i - 1) : analyses[j].riskId # id
    ELSE 0

\* lines 106-125, from input risk i on; acc = [results, analyses]
RECURSIVE CreatePropagationResults(_, _, _, _, _)
CreatePropagationResults(h, inRefs, refs, acc, i) ==
    IF i > Len(inRefs) THEN acc
    ELSE LET risk == h[inRefs[i]]
             propagatedRef == FindRiskRef(h, refs, risk.id)
             analysisIndex == FindAnalysisIndex(acc.analyses, risk.id)
         IN  IF propagatedRef = 0
             THEN CreatePropagationResults(h, inRefs, refs, acc, i + 1)
             ELSE CreatePropagationResults(h, inRefs, refs,
                      [results |-> Append(acc.results,
                                      [riskId |-> risk.id,
                                       originalProbability |-> risk.probability,
                                       finalProbability |-> h[propagatedRef].probability,
                                       propagationPath |-> <<>>]),
                       analyses |-> IF analysisIndex > 0
                                    THEN [acc.analyses EXCEPT ![analysisIndex].propagatedProbability =
                                             h[propagatedRef].probability]
                                    ELSE acc.analyses],
                      i + 1)

RecordPropagation ==
    /\ pc = "relax"
    /\ pass >= Passes
    /\ LET out == CreatePropagationResults(heap, inputRisks, propagatedRisks,
                      [results |-> <<>>, analyses |-> perRiskAnalysis], 1)
       IN  /\ propagationResults' = out.results
           /\ perRiskAnalysis' = out.analyses
    /\ pc' = "propagated"
    /\ UNCHANGED <<heap, inputVars, libraryVars, enrichedActivities, initialAnalyses, maxExpectedTimeImpact,
                   maxExpectedCostImpact, propagatedRisks, pass, combinedScenarios,
                   topRisksByBehaviorScore, topRisksByExpectedImpact, mcVars>>

\* the analysis as step 4 left it
KeepAnalysis(risk, analysis) == analysis

\* lines 128-149, the loop body: risk is propagatedRisks[i]
RecomputeAnalysis(risk, analysis) ==
    LET addedDays == RMul(analysis.affectedDurationSum, RDiv(risk.timeImpactPercent, R(100)))
        addedCost == RMul(analysis.affectedCostSum, RDiv(risk.costImpactPercent, R(100)))
    IN  [analysis EXCEPT !.addedDays = addedDays,
                         !.expectedTimeImpact = RMul(addedDays, RDiv(risk.probability, R(100))),
                         !.addedCost = addedCost,
                         !.expectedCostImpact = RMul(addedCost, RDiv(risk.probability, R(100)))]

\* Step 6
RecomputeImpacts ==
    /\ pc = "propagated"
    /\ perRiskAnalysis' = [i \in DOMAIN perRiskAnalysis |->
                              RecomputeAnalysis(heap[propagatedRisks[i]], perRiskAnalysis[i])]
    /\ pc' = "recomputed"
    /\ UNCHANGED <<heap, inputVars, libraryVars, enrichedActivities, initialAnalyses, maxExpectedTimeImpact,
                   maxExpectedCostImpact, propagatedRisks, pass, propagationResults,
                   combinedScenarios, topRisksByBehaviorScore, topRisksByExpectedImpact,
                   mcVars>>

TopCount == 3

\* without .slice(0, 3)
AllRisksRanked(analyses) ==
    LET sorted == SortByExpectedImpact(analyses)
    IN  [i \in DOMAIN sorted |-> sorted[i].riskId]

\* lines 152-159: ids of the first three by expected impact
Top3Risks(analyses) ==
    LET sorted == SortByExpectedImpact(analyses)
        top == SubSeq(sorted, 1, IF Len(sorted) < TopCount THEN Len(sorted) ELSE TopCount)
    IN  [i \in DOMAIN top |-> top[i].riskId]

\* the (i, j) pairs of the nested loops at lines 164-165, in loop order
RECURSIVE IndexPairs(_, _, _)
IndexPairs(n, i, j) ==
    IF i > n THEN <<>>
    ELSE IF j > n THEN IndexPairs(n, i + 1, i + 2)
    ELSE <<<<i, j>>>> \o IndexPairs(n, i, j + 1)

\* lines 161-183
CombinedScenariosOf(top3Risks, risks, activities) ==
    LET pairs == IndexPairs(Len(top3Risks), 1, 2)
        ofPairs == [k \in DOMAIN pairs |->
                       calculateCombinedImpact(<<top3Risks[pairs[k][1]], top3Risks[pairs[k][2]]>>,
                                               risks, activities)]
    IN  IF Len(top3Risks) >= 2
        THEN IF Len(top3Risks) = 3
             THEN Append(ofPairs, calculateCombinedImpact(top3Risks, risks, activities))
             ELSE ofPairs
        ELSE <<>>

\* Step 7
CombineStep ==
    /\ pc = "recomputed"
    /\ combinedScenarios' = CombinedScenariosOf(Top3Risks(perRiskAnalysis),
                                                Deref(heap, propagatedRisks),
                                                Deref(heap, enrichedActivities))
    /\ pc' = "combined"
    /\ UNCHANGED <<heap, inputVars, libraryVars, enrichedActivities, initialAnalyses, maxExpectedTimeImpact,
                   maxExpectedCostImpact, perRiskAnalysis, propagatedRisks, pass,
                   propagationResults, topRisksByBehaviorScore, topRisksByExpectedImpact,
                   mcVars>>

\* Step 8
RankStep ==
    /\ pc = "combined"
    /\ topRisksByBehaviorScore' = SortByBehaviorScore(perRiskAnalysis)
    /\ topRisksByExpectedImpact' = SortByExpectedImpact(perRiskAnalysis)
    /\ pc' = "ranked"
    /\ UNCHANGED <<heap, inputVars, libraryVars, enrichedActivities, initialAnalyses, maxExpectedTimeImpact,
                   maxExpectedCostImpact, perRiskAnalysis, propagatedRisks, pass,
                   propagationResults, combinedScenarios, mcVars>>

\* Step 9 skipped (enableMonteCarlo is false) and the return
ReturnWithoutMonteCarlo ==
    /\ pc = "ranked"
    /\ ~enableMonteCarlo
    /\ pc' = "done"
    /\ UNCHANGED <<heap, inputVars, libraryVars, enrichedActivities, initialAnalyses, maxExpectedTimeImpact,
                   maxExpectedCostImpact, perRiskAnalysis, propagatedRisks, pass,
                   propagationResults, combinedScenarios, topRisksByBehaviorScore,
                   topRisksByExpectedImpact, mcVars>>

\* the heap after the three passes of lines 81-103, from pass k on
RECURSIVE Relaxed(_, _, _, _)
Relaxed(h, inRefs, refs, k) ==
    IF k >= Passes THEN h
    ELSE Relaxed(ForEachRisk(h, inRefs, refs, 1), inRefs, refs, k + 1)

\* the element of a set of one element
TheOne(S) == CHOOSE x \in S : TRUE

\* lines 27-216 without Monte Carlo, as one function of the input: steps 1
\* to 8 in the order of the code; every step's result is computed once and
\* bound to a name, as the code binds it to a const
analyzeRiskBehavior(activities, risks) ==
    LET inRefs == [i \in DOMAIN risks |-> i]
    IN TheOne({TheOne({TheOne({TheOne({TheOne({TheOne({TheOne({TheOne({
           [perRiskAnalysis |-> analyses,
            propagationResults |-> out.results,
            combinedScenarios |->
                CombinedScenariosOf(Top3Risks(analyses), Deref(h, copy.refs), enriched),
            topRisksByBehaviorScore |-> SortByBehaviorScore(analyses),
            topRisksByExpectedImpact |-> SortByExpectedImpact(analyses)] :
         analyses \in {[i \in DOMAIN out.analyses |->
                           RecomputeAnalysis(h[copy.refs[i]], out.analyses[i])]}}) :
         out \in {CreatePropagationResults(h, inRefs, copy.refs,
                                           [results |-> <<>>, analyses |-> scored], 1)}}) :
         h \in {Relaxed(copy.heap, inRefs, copy.refs, 0)}}) :
         copy \in {CopyRoster(risks, inRefs)}}) :
         scored \in {[i \in DOMAIN risks |->
                         calculateSingleRisk(risks[i], enriched, risks, maxima[1], maxima[2])]}}) :
         maxima \in {<<RMaxSeq(R(1), [i \in DOMAIN initial |-> initial[i].expectedTimeImpact]),
                       RMaxSeq(R(1), [i \in DOMAIN initial |-> initial[i].expectedCostImpact])>>}}) :
         initial \in {[i \in DOMAIN risks |->
                          calculateSingleRisk(risks[i], enriched, risks,
                                              R(TemporaryMaxTime), R(TemporaryMaxCost))]}}) :
         enriched \in {enrichActivities(activities)}})

\* ------------------------------------------------------------ monte-carlo.ts

\* The values Math.random() is sampled at: u in [0, 1)
UniformDraws == {R(0), Rat(1, 2)}

\* Math.sqrt of a rational that is the square of a rational
RSqrt(a) ==
    LET n == CHOOSE k \in 0..a[1] : k * k = a[1]
        d == CHOOSE k \in 1..a[2] : k * k = a[2]
    IN  Rat(n, d)

\* triangularRandom(min, mode, max) with Math.random() returning u
triangularRandom(min, mode, max, u) ==
    LET fc == RDiv(RSub(mode, min), RSub(max, min))
    IN  IF RLt(u, fc)
        THEN RAdd(min, RSqrt(RMul(RMul(u, RSub(max, min)), RSub(mode, min))))
        ELSE RSub(max, RSqrt(RMul(RMul(RSub(R(1), u), RSub(max, min)), RSub(max, mode))))

Level2Activities(activities) == SelectSeq(activities, LAMBDA a : a.level = 2)

\* the reduce callback for durations in runIteration
IterationDurationTerm(a) ==
    IF Truthy(a.start) /\ Truthy(a.end)
    THEN OrElse(a.durationDays, calculateDurationDays(a.start, a.end))
    ELSE R(0)

\* lines 502-541, the loop body for one risk; draw = [occurs, time, cost] are
\* the values of Math.random(); returns the risk's [cost, duration] delta
RiskDelta(risk, level2Activities, draw) ==
    LET riskOccurs == RLt(RMul(draw.occurs, R(100)), risk.probability)
        affected == SelectSeq(level2Activities,
                              LAMBDA a : Includes(risk.affectedActivities, a.id))
        affectedCost == RSumSeq([i \in DOMAIN affected |-> affected[i].cost])
        affectedDuration == RSumSeq([i \in DOMAIN affected |-> IterationDurationTerm(affected[i])])
        timeImpactMultiplier ==
            RDiv(triangularRandom(RMul(risk.timeImpactPercent, Rat(8, 10)),
                                  risk.timeImpactPercent,
                                  RMul(risk.timeImpactPercent, Rat(12, 10)), draw.time), R(100))
        costImpactMultiplier ==
            RDiv(triangularRandom(RMul(risk.costImpactPercent, Rat(8, 10)),
                                  risk.costImpactPercent,
                                  RMul(risk.costImpactPercent, Rat(12, 10)), draw.cost), R(100))
    IN  IF riskOccurs /\ Len(affected) > 0
        THEN [cost |-> RMul(affectedCost, costImpactMultiplier),
              duration |-> RMul(affectedDuration, timeImpactMultiplier)]
        ELSE [cost |-> R(0), duration |-> R(0)]

\* runIteration(risks, activities) under the given draws, one per risk
runIteration(risks, activities, draws) ==
    LET level2Activities == Level2Activities(activities)
        baselineCost == RSumSeq([i \in DOMAIN level2Activities |-> level2Activities[i].cost])
        baselineDuration ==
            RSumSeq([i \in DOMAIN level2Activities |-> IterationDurationTerm(level2Activities[i])])
        deltas == [i \in DOMAIN risks |-> RiskDelta(risks[i], level2Activities, draws[i])]
    IN  [totalCost |-> RAdd(baselineCost, RSumSeq([i \in DOMAIN deltas |-> deltas[i].cost])),
         totalDuration |-> RAdd(baselineDuration,
                                RSumSeq([i \in DOMAIN deltas |-> deltas[i].duration]))]

\* insert into an ascending sequence, after the elements that are not larger
RECURSIVE InsertAscending(_, _)
InsertAscending(sorted, x) ==
    IF sorted = <<>> THEN <<x>>
    ELSE IF RLt(x, Head(sorted)) THEN <<x>> \o sorted
    ELSE <<Head(sorted)>> \o InsertAscending(Tail(sorted), x)

\* the series left in trial order
KeepOrder(values) == values

\* values.sort((a, b) => a - b)
RECURSIVE SortAscending(_)
SortAscending(values) ==
    IF values = <<>> THEN <<>>
    ELSE InsertAscending(SortAscending(SubSeq(values, 1, Len(values) - 1)), values[Len(values)])

\* percentile(sortedArray, p); JavaScript indexes from 0, the model from 1
percentile(sortedArray, p) ==
    LET n == Len(sortedArray)
        index == Ceil(RMul(Rat(p, 100), R(n))) - 1
        upper == IF index < n - 1 THEN index ELSE n - 1
        clamped == IF upper < 0 THEN 0 ELSE upper
    IN  sortedArray[clamped + 1]

\* calculateStats(values); stdDev is the square root of variance
calculateStats(values) ==
    LET n == R(Len(values))
        mean == RDiv(RSumSeq(values), n)
        squares == [i \in DOMAIN values |-> RMul(RSub(values[i], mean), RSub(values[i], mean))]
    IN  [mean |-> mean, variance |-> RDiv(RSumSeq(squares), n)]

\* values.filter((v) => v > threshold).length / iterations
ShareOver(values, threshold, iterations) ==
    IF threshold = Undefined THEN Undefined
    ELSE Some(RDiv(R(Len(SelectSeq(values, LAMBDA v : RGt(v, threshold[1])))), R(iterations)))

Distribution(sortedValues) ==
    LET stats == calculateStats(sortedValues)
    IN  [mean |-> stats.mean,
         variance |-> stats.variance,
         percentiles |-> [p10 |-> percentile(sortedValues, 10),
                          p50 |-> percentile(sortedValues, 50),
                          p90 |-> percentile(sortedValues, 90)]]

\* lines 594-640 of runMonteCarloSimulation, on the sorted series
MonteCarloOutput(sortedCost, sortedDuration, iterations, deadline, budget) ==
    [enabled |-> TRUE,
     iterations |-> iterations,
     totalCostDistribution |-> Distribution(sortedCost),
     totalDurationDistribution |-> Distribution(sortedDuration),
     probabilityOverDeadline |-> ShareOver(sortedDuration, deadline, iterations),
     probabilityOverBudget |-> ShareOver(sortedCost, budget, iterations)]

\* one iteration of: for (let i = 0; i < iterations; i++)
MonteCarloTrial ==
    /\ pc = "ranked"
    /\ enableMonteCarlo
    /\ Len(costResults) < monteCarloIterations
    /\ \E draws \in [DOMAIN propagatedRisks ->
                        [occurs : UniformDraws, time : UniformDraws, cost : UniformDraws]] :
          LET trial == runIteration(Deref(heap, propagatedRisks),
                                    Deref(heap, enrichedActivities), draws)
          IN  /\ costResults' = Append(costResults, trial.totalCost)
              /\ durationResults' = Append(durationResults, trial.totalDuration)
    /\ UNCHANGED <<heap, inputVars, libraryVars, pc, enrichedActivities, initialAnalyses,
                   maxExpectedTimeImpact, maxExpectedCostImpact, perRiskAnalysis,
                   propagatedRisks, pass, propagationResults, combinedScenarios,
                   topRisksByBehaviorScore, topRisksByExpectedImpact, monteCarlo>>

\* the rest of runMonteCarloSimulation (the page passes no deadline and no
\* budget) and the return of analyzeRiskBehavior
MonteCarloFinish ==
    /\ pc = "ranked"
    /\ enableMonteCarlo
    /\ Len(costResults) >= monteCarloIterations
    /\ costResults' = SortAscending(costResults)
    /\ durationResults' = SortAscending(durationResults)
    /\ monteCarlo' = Some(MonteCarloOutput(costResults', durationResults',
                                           monteCarloIterations, Undefined, Undefined))
    /\ pc' = "done"
    /\ UNCHANGED <<heap, inputVars, libraryVars, enrichedActivities, initialAnalyses,
                   maxExpectedTimeImpact, maxExpectedCostImpact, perRiskAnalysis,
                   propagatedRisks, pass, propagationResults, combinedScenarios,
                   topRisksByBehaviorScore, topRisksByExpectedImpact>>

\* ------------------------------------------------------------ inputs

MaxRisks == 2

MaxActivities == 1

MaxTrials == 3

EmptyString == [kind |-> "empty", t |-> 0]

BlankString == [kind |-> "blank", t |-> 0]

SomeText == [kind |-> "text", t |-> 0]

\* an ISO date, midnight of day n
Day(n) == [kind |-> "date", t |-> HoursPerDay * n]

\* an ISO date-time, noon of day n
Noon(n) == [kind |-> "date", t |-> HoursPerDay * n + 12]

DateStrings == {EmptyString, BlankString, SomeText, Day(0), Noon(5), Day(10)}

Activity(id, level, start, end, cost) ==
    [id |-> id, title |-> SomeText, level |-> level, start |-> start, end |-> end,
     cost |-> R(cost), durationDays |-> Undefined, baselineCost |-> Undefined]

Risk(id, probability, timeImpactPercent, costImpactPercent, trigger, relatedRisks, affectedActivities) ==
    [id |-> id, title |-> SomeText, probability |-> R(probability),
     timeImpactPercent |-> R(timeImpactPercent), costImpactPercent |-> R(costImpactPercent),
     scopeImpactPercent |-> R(-10), trigger |-> trigger,
     relatedRisks |-> relatedRisks, affectedActivities |-> affectedActivities]

Relation(riskId, strength) == [riskId |-> riskId, relationType |-> "dependency", strength |-> strength]

RiskIds == <<"R-1", "R-2", "R-3", "R-4", "R-5", "R-6">>

ActivityIds == <<"A-1-1", "A-1-2", "A-1-3">>

\* one artifact with two activities of 10 and 5 days costing 1000 and 500
BaseActivities ==
    <<Activity("A-1", 1, EmptyString, EmptyString, 0),
      Activity("A-1-1", 2, Day(0), Day(10), 1000),
      Activity("A-1-2", 2, Day(0), Day(5), 500)>>

\* rosters that vary probabilities and relations
PropagationRisks(i, n) ==
    {Risk(RiskIds[i], p, 20, 10, EmptyString, rel, <<"A-1-1", "A-1-2">>) :
        p \in {0, 20, 80},
        rel \in {<<>>} \cup {<<Relation(RiskIds[t], Some(Rat(1, 2)))>> : t \in 1..n}}

RECURSIVE PropagationRosters(_, _)
PropagationRosters(k, n) ==
    IF k = 0 THEN {<<>>}
    ELSE {Append(r, x) : r \in PropagationRosters(k - 1, n), x \in PropagationRisks(k, n)}

\* rosters in which every risk carries the same id
DuplicateRisks ==
    {Risk(RiskIds[1], p, 20, 10, EmptyString, rel, <<"A-1-1", "A-1-2">>) :
        p \in {20, 80},
        rel \in {<<>>, <<Relation(RiskIds[1], Some(Rat(1, 2)))>>}}

RECURSIVE DuplicateRosters(_)
DuplicateRosters(k) ==
    IF k = 0 THEN {<<>>}
    ELSE {Append(r, x) : r \in DuplicateRosters(k - 1), x \in DuplicateRisks}

\* rosters that vary what the score is made of; every risk but the first
\* relates to the first, without a strength
ScoreRisks(i) ==
    {Risk(RiskIds[i], 50, impact[1], impact[2], trigger,
          IF i = 1 THEN <<>> ELSE <<Relation(RiskIds[1], Undefined)>>, affected) :
        impact \in {<<20, 10>>, <<150, 150>>},
        trigger \in {EmptyString, SomeText},
        affected \in {<<"A-1-2">>, <<"A-1-1", "A-1-2">>, <<"A-1", "A-1-1">>}}

RECURSIVE ScoreRosters(_)
ScoreRosters(k) ==
    IF k = 0 THEN {<<>>}
    ELSE {Append(r, x) : r \in ScoreRosters(k - 1), x \in ScoreRisks(k)}

Rosters == UNION {PropagationRosters(n, n) \cup DuplicateRosters(n) \cup ScoreRosters(n) :
                     n \in 0..MaxRisks}

\* activity lists that vary levels and dates
DatedActivities(i) ==
    {Activity(ActivityIds[i], level, start, end, 1000) :
        level \in {1, 2}, start \in DateStrings, end \in DateStrings}

RECURSIVE DatedActivityLists(_)
DatedActivityLists(k) ==
    IF k = 0 THEN {<<>>}
    ELSE {Append(l, x) : l \in DatedActivityLists(k - 1), x \in DatedActivities(k)}

\* one risk, relating to itself or not
MonteCarloRosters ==
    {<<Risk(RiskIds[1], p, 20, 10, EmptyString, rel, <<"A-1-1", "A-1-2">>)>> :
        p \in {0, 20, 50},
        rel \in {<<>>, <<Relation(RiskIds[1], Some(Rat(1, 2)))>>}}

\* the state when analyzeRiskBehavior(input, enable, iterations) is entered
Called(activities, risks, enable, iterations) ==
    /\ heap = activities \o risks
    /\ callerView = heap
    /\ inputActivities = [i \in 1..Len(activities) |-> i]
    /\ inputRisks = [i \in 1..Len(risks) |-> Len(activities) + i]
    /\ enableMonteCarlo = enable
    /\ monteCarloIterations = iterations
    /\ pc = "start"
    /\ enrichedActivities = <<>>
    /\ initialAnalyses = <<>>
    /\ maxExpectedTimeImpact = R(1)
    /\ maxExpectedCostImpact = R(1)
    /\ perRiskAnalysis = <<>>
    /\ propagatedRisks = <<>>
    /\ pass = 0
    /\ propagationResults = <<>>
    /\ combinedScenarios = <<>>
    /\ topRisksByBehaviorScore = <<>>
    /\ topRisksByExpectedImpact = <<>>
    /\ costResults = <<>>
    /\ durationResults = <<>>
    /\ monteCarlo = Undefined
    /\ errors = Undefined
    /\ callStack = <<>>
    /\ propagationResult = Undefined
    /\ PageLoaded

DefaultIterations == 7500

Init == \E risks \in Rosters : Called(BaseActivities, risks, FALSE, DefaultIterations)

InitActivities ==
    \E k \in 0..MaxActivities :
        \E activities \in DatedActivityLists(k) :
            Called(activities,
                   <<Risk(RiskIds[1], 50, 20, 10, EmptyString, <<>>, <<"A-1-1", "A-1-2">>)>>,
                   FALSE, DefaultIterations)

InitMonteCarlo ==
    \E risks \in MonteCarloRosters, enable \in BOOLEAN, iterations \in 1..MaxTrials :
        Called(BaseActivities, risks, enable, iterations)

Analyze ==
    \/ EnrichStep
    \/ InitialPass
    \/ ScorePass
    \/ CopyStep
    \/ RelaxationPass
    \/ RecordPropagation
    \/ RecomputeImpacts
    \/ CombineStep
    \/ RankStep

Next == Analyze \/ ReturnWithoutMonteCarlo

NextMonteCarlo == Analyze \/ ReturnWithoutMonteCarlo \/ MonteCarloTrial \/ MonteCarloFinish

Spec == Init /\ [][Next]_vars

SpecActivities == InitActivities /\ [][Next]_vars

SpecMonteCarlo == InitMonteCarlo /\ [][NextMonteCarlo]_vars

\* ------------------------------------------------------------ validation.ts

\* An error record; the message is its text, with the id a template
\* interpolates as a second element
Error(field, message) == [field |-> field, message |-> message]

\* !id || id.trim().length === 0, ids being "" (empty), " " (blank) or a name
IdIsMissing(id) == id \in {"", " "}

\* !title || title.trim().length === 0
TextIsMissing(str) == ~Truthy(str) \/ TrimIsEmpty(str)

\* new Date(end) < new Date(start): false when either is an Invalid Date
EndsBeforeStart(start, end) ==
    ~ParsesToNaN(start) /\ ~ParsesToNaN(end) /\ end.t < start.t

\* errors.push(e) under a condition
PushIf(condition, e) == IF condition THEN <<e>> ELSE <<>>

validateActivity(activity) ==
    PushIf(IdIsMissing(activity.id), Error("id", <<"Activity ID is required">>))
    \o PushIf(TextIsMissing(activity.title), Error("title", <<"Activity title is required">>))
    \o PushIf(~Truthy(activity.start), Error("start", <<"Start date is required">>))
    \o PushIf(~Truthy(activity.end), Error("end", <<"End date is required">>))
    \o PushIf(Truthy(activity.start) /\ Truthy(activity.end)
                  /\ EndsBeforeStart(activity.start, activity.end),
              Error("end", <<"End date must be >= start date">>))
    \o PushIf(RLt(activity.cost, R(0)), Error("cost", <<"Cost must be >= 0">>))
    \o PushIf(activity.level # 1 /\ activity.level # 2, Error("level", <<"Level must be 1 or 2">>))

RECURSIVE Flatten(_)
Flatten(lists) == IF lists = <<>> THEN <<>> ELSE Head(lists) \o Flatten(Tail(lists))

\* strength !== undefined && (strength < 0 || strength > 1)
StrengthOutOfRange(relation) ==
    /\ relation.strength # Undefined
    /\ RLt(relation.strength[1], R(0)) \/ RGt(relation.strength[1], R(1))

validateRisk(risk, allActivityIds) ==
    PushIf(IdIsMissing(risk.id), Error("id", <<"Risk ID is required">>))
    \o PushIf(TextIsMissing(risk.title), Error("title", <<"Risk title is required">>))
    \o PushIf(RLt(risk.probability, R(0)) \/ RGt(risk.probability, R(100)),
              Error("probability", <<"Probability must be between 0 and 100">>))
    \o PushIf(RLt(risk.timeImpactPercent, R(0)),
              Error("timeImpactPercent", <<"Time impact must be >= 0">>))
    \o PushIf(RLt(risk.costImpactPercent, R(0)),
              Error("costImpactPercent", <<"Cost impact must be >= 0">>))
    \o Flatten([k \in DOMAIN risk.affectedActivities |->
                   PushIf(~Includes(allActivityIds, risk.affectedActivities[k]),
                          Error("affectedActivities",
                                <<"Activity does not exist", risk.affectedActivities[k]>>))])
    \o Flatten([k \in DOMAIN risk.relatedRisks |->
                   PushIf(StrengthOutOfRange(risk.relatedRisks[k]),
                          Error("relatedRisks",
                                <<"Relation strength must be between 0 and 1",
                                  risk.relatedRisks[k].riskId>>))])

\* a Set that is never added to
NoIdsBefore(list, i) == {}

\* the ids of the first i - 1 elements: what the Set holds at iteration i
IdsBefore(list, i) == {list[j].id : j \in 1..(i - 1)}

\* Array.from(activityIds): the distinct ids in order of first appearance
DistinctIds(list) ==
    LET firsts == SelectSeq([i \in DOMAIN list |-> i],
                            LAMBDA i : list[i].id \notin IdsBefore(list, i))
    IN  [k \in DOMAIN firsts |-> list[firsts[k]].id]

validateInput(activities, risks) ==
    LET allActivityIds == DistinctIds(activities)
    IN  PushIf(Len(activities) = 0,
               Error("activities", <<"At least one activity is required">>))
        \o PushIf(Len(risks) = 0, Error("risks", <<"At least one risk is required">>))
        \o Flatten([i \in DOMAIN activities |->
                       validateActivity(activities[i])
                       \o PushIf(activities[i].id \in IdsBefore(activities, i),
                                 Error("activities", <<"Duplicate activity ID", activities[i].id>>))])
        \o Flatten([i \in DOMAIN risks |->
                       validateRisk(risks[i], allActivityIds)
                       \o PushIf(risks[i].id \in IdsBefore(risks, i),
                                 Error("risks", <<"Duplicate risk ID", risks[i].id>>))
                       \o PushIf(Len(risks[i].affectedActivities) = 0,
                                 Error("risks", <<"Risk must have at least one affected activity",
                                                  risks[i].id>>))])

\* a client calls validateInput(input)
ValidateStep ==
    /\ pc = "start"
    /\ errors = Undefined
    /\ errors' = Some(validateInput(Deref(heap, inputActivities), Deref(heap, inputRisks)))
    /\ UNCHANGED <<heap, inputVars, pc, enrichedActivities, initialAnalyses,
                   maxExpectedTimeImpact, maxExpectedCostImpact, perRiskAnalysis,
                   propagatedRisks, pass, propagationResults, combinedScenarios,
                   topRisksByBehaviorScore, topRisksByExpectedImpact, mcVars,
                   callStack, propagationResult>>

MaxListed == 2

\* activities as the wizard's first step makes them, well-formed or not
ListedActivities ==
    {Activity("A-1", 1, EmptyString, EmptyString, 0),
     Activity("A-1-1", 2, Day(0), Day(10), 1000),
     Activity("A-1-2", 2, Day(0), Day(5), 500),
     Activity("A-1-1", 2, Day(10), Day(5), 1000)}

RECURSIVE ActivityLists(_)
ActivityLists(k) ==
    IF k = 0 THEN {<<>>}
    ELSE LET shorter == ActivityLists(k - 1)
         IN  shorter \cup {Append(l, x) : l \in {m \in shorter : Len(m) = k - 1},
                                          x \in ListedActivities}

\* risks, well-formed or not: nothing affected, an unknown activity, a
\* relation to a risk that may not be listed, a strength out of range
ListedRisks ==
    {Risk("R-1", 50, 20, 10, EmptyString, <<>>, <<"A-1-1">>),
     Risk("R-2", 50, 20, 10, EmptyString, <<Relation("R-1", Some(Rat(1, 2)))>>, <<"A-1-1">>),
     Risk("R-1", 50, 20, 10, EmptyString, <<>>, <<>>),
     Risk("R-2", 50, 20, 10, EmptyString, <<>>, <<"A-9">>),
     Risk("R-2", 50, 20, 10, EmptyString, <<Relation("R-9", Some(Rat(1, 2)))>>, <<"A-1-1">>),
     Risk("R-1", 50, 20, 10, EmptyString, <<Relation("R-2", Some(R(2)))>>, <<"A-1-1">>)}

RECURSIVE RiskLists(_)
RiskLists(k) ==
    IF k = 0 THEN {<<>>}
    ELSE LET shorter == RiskLists(k - 1)
         IN  shorter \cup {Append(l, x) : l \in {m \in shorter : Len(m) = k - 1},
                                          x \in ListedRisks}

InitValidation ==
    \E activities \in ActivityLists(MaxListed), risks \in RiskLists(MaxListed) :
        Called(activities, risks, FALSE, DefaultIterations)

NextValidation == ValidateStep

SpecValidation == InitValidation /\ [][NextValidation]_vars

\* ------------------------------------------------------------ calculations.ts: propagateRisk

MaxDepth == 3

\* an activation of propagateRisk(risk, allRisks, visited, depth, path); at
\* is "guard" on entry and "loop" once the guard has let it through, k is
\* the position of the for loop in risk.relatedRisks
Activation(risk, visited, depth, path) ==
    [risk |-> risk, visited |-> visited, depth |-> depth, path |-> path,
     newPath |-> <<>>, finalProbability |-> risk.probability, k |-> 1, at |-> "guard"]

\* allRisks.find((r) => r.id === id): its index, 0 if none
FindRiskIndex(allRisks, id) ==
    IF \E i \in DOMAIN allRisks : allRisks[i].id = id
    THEN CHOOSE i \in DOMAIN allRisks :
             /\ allRisks[i].id = id
             /\ \A j \in 1..(i - 1) : allRisks[j].id # id
    ELSE 0

\* no limit on the depth
AlwaysRecurse(depth) == TRUE

\* depth < 3
MayRecurse(depth) == depth < MaxDepth

\* a return: the caller takes Math.max of the final probabilities and moves
\* to its next relation; the outermost return ends the call
Deliver(result) ==
    LET n == Len(callStack)
    IN  IF n = 1
        THEN /\ callStack' = <<>>
             /\ propagationResult' = Some(result)
             /\ pc' = "returned"
        ELSE /\ callStack' =
                    [SubSeq(callStack, 1, n - 1) EXCEPT
                        ![n - 1].finalProbability =
                            RMax(callStack[n - 1].finalProbability, result.finalProbability),
                        ![n - 1].k = callStack[n - 1].k + 1]
             /\ UNCHANGED <<propagationResult, pc>>

analyzerVars == <<heap, inputVars, enrichedActivities, initialAnalyses, maxExpectedTimeImpact,
                  maxExpectedCostImpact, perRiskAnalysis, propagatedRisks, pass,
                  propagationResults, combinedScenarios, topRisksByBehaviorScore,
                  topRisksByExpectedImpact, mcVars, errors>>

\* lines 402-409: depth > 3 or the risk is in visited
PropagateRefuse ==
    /\ pc = "propagate"
    /\ callStack # <<>>
    /\ LET top == callStack[Len(callStack)]
       IN  /\ top.at = "guard"
           /\ top.depth > MaxDepth \/ top.risk.id \in top.visited
           /\ Deliver([riskId |-> top.risk.id,
                       originalProbability |-> top.risk.probability,
                       finalProbability |-> top.risk.probability,
                       propagationPath |-> top.path])
    /\ UNCHANGED analyzerVars

\* lines 411-414
PropagateEnter ==
    /\ pc = "propagate"
    /\ callStack # <<>>
    /\ LET n == Len(callStack)
           top == callStack[n]
       IN  /\ top.at = "guard"
           /\ ~(top.depth > MaxDepth \/ top.risk.id \in top.visited)
           /\ callStack' = [callStack EXCEPT
                               ![n].visited = top.visited \cup {top.risk.id},
                               ![n].newPath = Append(top.path, top.risk.id),
                               ![n].finalProbability = top.risk.probability,
                               ![n].at = "loop"]
    /\ UNCHANGED <<analyzerVars, propagationResult, pc>>

\* lines 417-446: one relation of the for loop, up to the recursive call
PropagateRelation ==
    /\ pc = "propagate"
    /\ callStack # <<>>
    /\ LET n == Len(callStack)
           top == callStack[n]
           allRisks == Deref(heap, inputRisks)
       IN  /\ top.at = "loop"
           /\ top.k <= Len(top.risk.relatedRisks)
           /\ LET relation == top.risk.relatedRisks[top.k]
                  found == FindRiskIndex(allRisks, relation.riskId)
                  skip == [callStack EXCEPT ![n].k = top.k + 1]
              IN  IF found = 0 THEN callStack' = skip
                  ELSE LET relatedRisk == allRisks[found]
                           strength == OrElse(relation.strength, DefaultStrength)
                           probabilityIncrease == RMul(strength, top.risk.probability)
                           newProbability ==
                               RMin(R(100), RAdd(relatedRisk.probability, probabilityIncrease))
                           change == RSub(newProbability, relatedRisk.probability)
                       IN  IF /\ RGt(probabilityIncrease, SignificanceThreshold)
                              /\ MayRecurse(top.depth)
                              /\ RGt(change, SignificanceThreshold)
                                    \/ RGt(RNeg(change), SignificanceThreshold)
                           THEN callStack' =
                                    Append(callStack,
                                           Activation([relatedRisk EXCEPT
                                                          !.probability = newProbability],
                                                      top.visited, top.depth + 1, top.newPath))
                           ELSE callStack' = skip
    /\ UNCHANGED <<analyzerVars, propagationResult, pc>>

\* lines 448-453
PropagateReturn ==
    /\ pc = "propagate"
    /\ callStack # <<>>
    /\ LET top == callStack[Len(callStack)]
       IN  /\ top.at = "loop"
           /\ top.k > Len(top.risk.relatedRisks)
           /\ Deliver([riskId |-> top.risk.id,
                       originalProbability |-> top.risk.probability,
                       finalProbability |-> top.finalProbability,
                       propagationPath |-> top.newPath])
    /\ UNCHANGED analyzerVars

Propagate == PropagateRefuse \/ PropagateEnter \/ PropagateRelation \/ PropagateReturn

MaxChain == 4

\* the risk after risk i in a ring of n
NextInRing(i, n) == RiskIds[(i % n) + 1]

\* rings of n risks: every risk relates to the next one, the last to the
\* first; some relate to themselves as well, some have probability 0, some
\* relate to a risk that is not in the roster
RingRisks(i, n) ==
    {Risk(RiskIds[i], 40, 20, 10, EmptyString,
          <<Relation(NextInRing(i, n), Some(Rat(1, 2)))>>, <<"A-1-1", "A-1-2">>),
     Risk(RiskIds[i], 40, 20, 10, EmptyString,
          <<Relation(RiskIds[i], Undefined), Relation(NextInRing(i, n), Some(Rat(1, 2)))>>,
          <<"A-1-1", "A-1-2">>),
     Risk(RiskIds[i], 0, 20, 10, EmptyString,
          <<Relation(NextInRing(i, n), Some(Rat(1, 2)))>>, <<"A-1-1", "A-1-2">>),
     Risk(RiskIds[i], 100, 20, 10, EmptyString,
          <<Relation("R-9", Some(Rat(1, 2))), Relation(NextInRing(i, n), Some(Rat(1, 2)))>>,
          <<"A-1-1", "A-1-2">>)}

RECURSIVE RingRosters(_, _)
RingRosters(k, n) ==
    IF k = 0 THEN {<<>>}
    ELSE {Append(r, x) : r \in RingRosters(k - 1, n), x \in RingRisks(k, n)}

\* the state when propagateRisk(risks[1], risks) is entered
PropagateCalled(risks) ==
    /\ heap = BaseActivities \o risks
    /\ callerView = heap
    /\ inputActivities = [i \in 1..Len(BaseActivities) |-> i]
    /\ inputRisks = [i \in 1..Len(risks) |-> Len(BaseActivities) + i]
    /\ enableMonteCarlo = FALSE
    /\ monteCarloIterations = DefaultIterations
    /\ pc = "propagate"
    /\ enrichedActivities = <<>>
    /\ initialAnalyses = <<>>
    /\ maxExpectedTimeImpact = R(1)
    /\ maxExpectedCostImpact = R(1)
    /\ perRiskAnalysis = <<>>
    /\ propagatedRisks = <<>>
    /\ pass = 0
    /\ propagationResults = <<>>
    /\ combinedScenarios = <<>>
    /\ topRisksByBehaviorScore = <<>>
    /\ topRisksByExpectedImpact = <<>>
    /\ costResults = <<>>
    /\ durationResults = <<>>
    /\ monteCarlo = Undefined
    /\ errors = Undefined
    /\ callStack = <<Activation(risks[1], {}, 0, <<>>)>>
    /\ propagationResult = Undefined
    /\ PageLoaded

\* a ring is handed to analyzeRiskBehavior or its first risk to propagateRisk
InitPropagation ==
    \E n \in 1..MaxChain :
        \E risks \in RingRosters(n, n) :
            \/ Called(BaseActivities, risks, FALSE, DefaultIterations)
            \/ PropagateCalled(risks)

NextPropagation == Analyze \/ ReturnWithoutMonteCarlo \/ Propagate

SpecPropagation == InitPropagation /\ [][NextPropagation]_vars

\* ENABLED <<NextPropagation>>_vars, from the guards of the actions: every
\* position of analyzeRiskBehavior has a step, and propagateRisk has one
\* while an activation is left
CanStep ==
    \/ pc \in {"start", "enriched", "maxima", "scored", "relax", "propagated",
               "recomputed", "combined"}
    \/ pc = "ranked" /\ ~enableMonteCarlo
    \/ pc = "propagate" /\ callStack # <<>>

\* Both functions are synchronous: a call that can take a step takes it.
\* This is WF_vars(NextPropagation) with ENABLED written as CanStep.
FairSpecPropagation ==
    SpecPropagation /\ ([]<>~CanStep \/ []<><<NextPropagation>>_vars)

\* ------------------------------------------------------------ rosters of up to four risks

MaxRanked == 4

\* risk i of a roster with unique ids: alone at 20 or 40, or related to the
\* first risk, which it raises past the others, with a strength or without
RankedRisks(i) ==
    {Risk(RiskIds[i], 20, 20, 10, EmptyString, <<>>, <<"A-1-1", "A-1-2">>),
     Risk(RiskIds[i], 40, 20, 10, EmptyString, <<>>, <<"A-1-1", "A-1-2">>),
     Risk(RiskIds[i], 20, 20, 10, EmptyString,
          <<Relation(RiskIds[1], Some(Rat(1, 2)))>>, <<"A-1-2">>),
     Risk(RiskIds[i], 40, 20, 10, EmptyString,
          <<Relation(RiskIds[1], Undefined)>>, <<"A-1-2">>)}

RECURSIVE RankedRosters(_)
RankedRosters(k) ==
    IF k = 0 THEN {<<>>}
    ELSE {Append(r, x) : r \in RankedRosters(k - 1), x \in RankedRisks(k)}

InitRanked ==
    \E n \in 0..MaxRanked :
        \E risks \in RankedRosters(n) : Called(BaseActivities, risks, FALSE, DefaultIterations)

SpecRanked == InitRanked /\ [][Next]_vars

\* ------------------------------------------------------------ rosters that refer to the artifact

MaxLevelRisks == 3

\* risk i affects the two activities, or the artifact and one activity;
\* every risk but the first relates to the first or to the one before it,
\* with probabilities low enough for the cap of 100 to stay out of reach
LevelRisks(i) ==
    {Risk(RiskIds[i], 4 * i, 20, 10, EmptyString,
          IF i = 1 THEN <<>> ELSE <<Relation(RiskIds[target], Some(Rat(1, 2)))>>, affected) :
        target \in {1, IF i = 1 THEN 1 ELSE i - 1},
        affected \in {<<"A-1-1", "A-1-2">>, <<"A-1", "A-1-2">>}}

RECURSIVE LevelRosters(_)
LevelRosters(k) ==
    IF k = 0 THEN {<<>>}
    ELSE {Append(r, x) : r \in LevelRosters(k - 1), x \in LevelRisks(k)}

InitLevels ==
    \E n \in 0..MaxLevelRisks :
        \E risks \in LevelRosters(n) : Called(BaseActivities, risks, FALSE, DefaultIterations)

SpecLevels == InitLevels /\ [][Next]_vars

\* ------------------------------------------------------------ page.tsx and the step components

\* the lengths the lists of the wizard may reach
MaxWizardActivities == 2

MaxWizardRisks == 1

\* the variables of the engine, which the page reaches only through analyzeRiskBehavior
engineVars == <<heap, callerView, inputActivities, inputRisks, enableMonteCarlo,
                monteCarloIterations, pc, enrichedActivities, initialAnalyses,
                maxExpectedTimeImpact, maxExpectedCostImpact, perRiskAnalysis, propagatedRisks,
                pass, propagationResults, combinedScenarios, topRisksByBehaviorScore,
                topRisksByExpectedImpact, costResults, durationResults, monteCarlo, errors,
                callStack, propagationResult>>

\* no call of the engine is in progress
EngineIdle ==
    /\ heap = <<>>
    /\ callerView = <<>>
    /\ inputActivities = <<>>
    /\ inputRisks = <<>>
    /\ enableMonteCarlo = FALSE
    /\ monteCarloIterations = DefaultIterations
    /\ pc = "idle"
    /\ enrichedActivities = <<>>
    /\ initialAnalyses = <<>>
    /\ maxExpectedTimeImpact = R(1)
    /\ maxExpectedCostImpact = R(1)
    /\ perRiskAnalysis = <<>>
    /\ propagatedRisks = <<>>
    /\ pass = 0
    /\ propagationResults = <<>>
    /\ combinedScenarios = <<>>
    /\ topRisksByBehaviorScore = <<>>
    /\ topRisksByExpectedImpact = <<>>
    /\ costResults = <<>>
    /\ durationResults = <<>>
    /\ monteCarlo = Undefined
    /\ errors = Undefined
    /\ callStack = <<>>
    /\ propagationResult = Undefined

\* `${prefix}-${n}` for the prefixes the wizard uses
Numbered(prefix, n) ==
    CASE prefix = "R" -> RiskIds[n]
      [] prefix = "A" -> <<"A-1", "A-2", "A-3", "A-4", "A-5">>[n]
      [] prefix = "A-1" -> <<"A-1-1", "A-1-2", "A-1-3", "A-1-4", "A-1-5">>[n]
      [] prefix = "A-2" -> <<"A-2-1", "A-2-2", "A-2-3", "A-2-4", "A-2-5">>[n]
      [] prefix = "A-3" -> <<"A-3-1", "A-3-2", "A-3-3", "A-3-4", "A-3-5">>[n]
      [] prefix = "A-4" -> <<"A-4-1", "A-4-2", "A-4-3", "A-4-4", "A-4-5">>[n]
      [] prefix = "A-5" -> <<"A-5-1", "A-5-2", "A-5-3", "A-5-4", "A-5-5">>[n]

\* id.startsWith(`${artifactId}-`), for the ids that Numbered makes
StartsWithDashed(id, artifactId) == \E n \in 1..5 : Numbered(artifactId, n) = id

\* new Date().toISOString().split('T')[0]
Today == Day(0)

\* Step1Activities.tsx lines 20-21
WizardArtifacts == SelectSeq(page.activities, LAMBDA a : a.level = 1)

WizardLevel2 == Level2Activities(page.activities)

\* the handlers run on a tree that rendered
Shown(step) == page.currentStep = step /\ ~form.thrown

\* Step1Activities.tsx lines 23-33
addArtifact ==
    /\ Shown(0)
    /\ Len(page.activities) < MaxWizardActivities
    /\ page' = [page EXCEPT !.activities = Append(@,
           [Activity(Numbered("A", Len(WizardArtifacts) + 1), 1, EmptyString, EmptyString, 0)
               EXCEPT !.title = EmptyString])]
    /\ UNCHANGED <<form, engineVars>>

\* Step1Activities.tsx lines 35-44
removeArtifact ==
    /\ Shown(0)
    /\ \E i \in DOMAIN WizardArtifacts :
        LET artifactId == WizardArtifacts[i].id
        IN page' = [page EXCEPT !.activities = SelectSeq(@,
               LAMBDA a : a.id # artifactId /\ ~StartsWithDashed(a.id, artifactId))]
    /\ UNCHANGED <<form, engineVars>>

\* Step1Activities.tsx lines 46-51, called at line 162 with the field 'title'
updateArtifact ==
    /\ Shown(0)
    /\ \E i \in DOMAIN WizardArtifacts :
        LET artifactId == WizardArtifacts[i].id
        IN page' = [page EXCEPT !.activities =
               [k \in DOMAIN @ |-> IF @[k].id = artifactId THEN [@[k] EXCEPT !.title = SomeText]
                                   ELSE @[k]]]
    /\ UNCHANGED <<form, engineVars>>

\* Step1Activities.tsx lines 53-65, called at line 199 for the selected artifact
addActivityToArtifact ==
    /\ Shown(0)
    /\ Len(page.activities) < MaxWizardActivities
    /\ \E i \in DOMAIN WizardArtifacts :
        LET artifactId == WizardArtifacts[i].id
            artifactActivities ==
                SelectSeq(WizardLevel2, LAMBDA a : StartsWithDashed(a.id, artifactId))
            activityNumber == Len(artifactActivities) + 1
        IN page' = [page EXCEPT !.activities = Append(@,
               [Activity(Numbered(artifactId, activityNumber), 2, Today, Today, 0)
                   EXCEPT !.title = EmptyString])]
    /\ UNCHANGED <<form, engineVars>>

\* Step1Activities.tsx lines 67-69, called at line 294 for an activity of the selected artifact
removeActivity ==
    /\ Shown(0)
    /\ \E i \in DOMAIN WizardLevel2 :
        LET activityId == WizardLevel2[i].id
        IN page' = [page EXCEPT !.activities = SelectSeq(@, LAMBDA a : a.id # activityId)]
    /\ UNCHANGED <<form, engineVars>>

\* Step1Activities.tsx lines 71-102, called at line 229 with the field 'title'; the
\* dates and the cost stay as addActivityToArtifact set them
updateActivity ==
    /\ Shown(0)
    /\ \E i \in DOMAIN WizardLevel2 :
        LET activityId == WizardLevel2[i].id
        IN page' = [page EXCEPT !.activities =
               [k \in DOMAIN @ |-> IF @[k].id = activityId THEN [@[k] EXCEPT !.title = SomeText]
                                   ELSE @[k]]]
    /\ UNCHANGED <<form, engineVars>>

\* part_003 lines 915-917: the render of Step2Risks reads risks[editingIndex].id for
\* every risk of the roster and throws a TypeError when that element is undefined
RenderThrows(risks, editingIndex) ==
    editingIndex # 0 /\ risks # <<>> /\ editingIndex > Len(risks)

\* part_003 line 944
setTitle ==
    /\ Shown(1)
    /\ form' = [form EXCEPT !.formData.title = SomeText]
    /\ UNCHANGED <<page, engineVars>>

\* part_003 lines 818-837
resetForm ==
    /\ Shown(1)
    /\ form.editingIndex # 0        \* line 1215: the Cancel button of an edit
    /\ form' = [form EXCEPT !.editingIndex = 0, !.formData = EmptyForm]
    /\ UNCHANGED <<page, engineVars>>

\* part_003 lines 839-865
handleSave ==
    /\ Shown(1)
    /\ Truthy(form.formData.title)
    /\ form.editingIndex = 0 => Len(page.risks) < MaxWizardRisks
    /\ form.editingIndex <= Len(page.risks)     \* risks[editingIndex].id of undefined throws
    /\ LET newRisk ==
               [id |-> IF form.editingIndex # 0 THEN page.risks[form.editingIndex].id
                       ELSE Numbered("R", Len(page.risks) + 1),
                title |-> form.formData.title,
                probability |-> form.formData.probability,
                timeImpactPercent |-> R(0),
                costImpactPercent |-> R(0),
                scopeImpactPercent |-> R(0),
                trigger |-> EmptyString,
                relatedRisks |-> form.formData.relatedRisks,
                affectedActivities |-> form.formData.affectedActivities]
       IN page' = [page EXCEPT !.risks =
              IF form.editingIndex # 0 THEN [@ EXCEPT ![form.editingIndex] = newRisk]
              ELSE Append(@, newRisk)]
    /\ form' = [form EXCEPT !.editingIndex = 0, !.formData = EmptyForm]
    /\ UNCHANGED engineVars

\* part_003 lines 867-870
handleEdit ==
    /\ Shown(1)
    /\ \E index \in DOMAIN page.risks :
        form' = [form EXCEPT !.editingIndex = index,
                             !.formData = [title |-> page.risks[index].title,
                                           probability |-> page.risks[index].probability,
                                           relatedRisks |-> page.risks[index].relatedRisks,
                                           affectedActivities |->
                                               page.risks[index].affectedActivities]]
    /\ UNCHANGED <<page, engineVars>>

\* part_003 lines 872-874, and the render that follows
handleDelete ==
    /\ Shown(1)
    /\ \E index \in DOMAIN page.risks :
        LET risks == [k \in 1..(Len(page.risks) - 1) |->
                          IF k < index THEN page.risks[k] ELSE page.risks[k + 1]]
        IN /\ page' = [page EXCEPT !.risks = risks]
           /\ form' = [form EXCEPT !.thrown = RenderThrows(risks, form.editingIndex)]
    /\ UNCHANGED engineVars

\* part_003 lines 915-917
availableRiskIds ==
    {page.risks[k].id : k \in {k \in DOMAIN page.risks :
        form.editingIndex = 0 \/ page.risks[k].id # page.risks[form.editingIndex].id}}

\* part_003 lines 876-904, with the riskId chosen at line 1104 and the default strength
addRelatedRisk ==
    /\ Shown(1)
    /\ \E riskId \in availableRiskIds :
        /\ ~\E k \in DOMAIN form.formData.relatedRisks :
               form.formData.relatedRisks[k].riskId = riskId
        /\ form' = [form EXCEPT !.formData.relatedRisks =
               Append(@, Relation(riskId, Some(Rat(3, 10))))]
    /\ UNCHANGED <<page, engineVars>>

\* part_003 lines 906-910
removeRelatedRisk ==
    /\ Shown(1)
    /\ \E index \in DOMAIN form.formData.relatedRisks :
        form' = [form EXCEPT !.formData.relatedRisks =
            [k \in 1..(Len(@) - 1) |-> IF k < index THEN @[k] ELSE @[k + 1]]]
    /\ UNCHANGED <<page, engineVars>>

\* part_003 lines 38-49, called at line 166 for a listed risk and the selected activity
toggleRiskAssignment ==
    /\ Shown(2)
    /\ \E r \in DOMAIN page.risks, a \in DOMAIN page.activities :
        LET riskId == page.risks[r].id
            activityId == page.activities[a].id
        IN page' = [page EXCEPT !.risks =
               [k \in DOMAIN @ |->
                   IF @[k].id = riskId
                   THEN [@[k] EXCEPT !.affectedActivities =
                            IF Includes(@, activityId)
                            THEN SelectSeq(@, LAMBDA id : id # activityId)
                            ELSE Append(@, activityId)]
                   ELSE @[k]]]
    /\ UNCHANGED <<form, engineVars>>

\* page.tsx lines 81-101
canProceedStep0 ==
    /\ WizardArtifacts # <<>>
    /\ \A i \in DOMAIN WizardArtifacts :
        Truthy(WizardArtifacts[i].title) /\ ~TrimIsEmpty(WizardArtifacts[i].title)
    /\ WizardLevel2 # <<>>
    /\ \A i \in DOMAIN WizardLevel2 :
        LET a == WizardLevel2[i]
        IN /\ Truthy(a.title) /\ Truthy(a.start) /\ Truthy(a.end)
           /\ ~(~ParsesToNaN(a.start) /\ ~ParsesToNaN(a.end) /\ a.end.t < a.start.t)
           /\ ~RLt(a.cost, R(0))

\* page.tsx line 103
canProceedStep1 == Len(page.risks) > 0

\* page.tsx line 105
canProceedStep2 == \A k \in DOMAIN page.risks : Len(page.risks[k].affectedActivities) > 0

\* page.tsx lines 107-120
canProceed ==
    CASE page.currentStep = 0 -> canProceedStep0
      [] page.currentStep = 1 -> canProceedStep1
      [] page.currentStep = 2 -> canProceedStep2
      [] page.currentStep = 3 -> TRUE
      [] OTHER -> FALSE

\* page.tsx lines 51-64: the deterministic fields of the output
runAnalysis(p) ==
    [p EXCEPT !.analysisOutput = Some(analyzeRiskBehavior(p.activities, p.risks))]

\* handleStepChange without the call of runAnalysis at lines 45-47
StepChangeWithoutAnalysis(step) ==
    /\ page' = [page EXCEPT !.currentStep = step]
    /\ form' = [editingIndex |-> 0, formData |-> EmptyForm, thrown |-> FALSE]
    /\ UNCHANGED engineVars

\* page.tsx lines 43-49; the step component that leaves the tree loses its state
handleStepChange(step) ==
    /\ page' = [(IF step = 3 /\ page.currentStep < 3 THEN runAnalysis(page) ELSE page)
                   EXCEPT !.currentStep = step]
    /\ form' = [editingIndex |-> 0, formData |-> EmptyForm, thrown |-> FALSE]
    /\ UNCHANGED engineVars

\* part_003 lines 673-677
handleNext ==
    /\ ~form.thrown
    /\ page.currentStep < 4 - 1 /\ canProceed
    /\ handleStepChange(page.currentStep + 1)

\* part_003 lines 679-683
handleBack ==
    /\ ~form.thrown
    /\ page.currentStep > 0
    /\ handleStepChange(page.currentStep - 1)

\* page.tsx lines 174-179: the Re-run Analysis button of the results step
rerunAnalysis ==
    /\ Shown(3)
    /\ page.analysisOutput # Undefined
    /\ page' = runAnalysis(page)
    /\ UNCHANGED <<form, engineVars>>

InitWizard == EngineIdle /\ PageLoaded

NextWizard ==
    \/ addArtifact \/ removeArtifact \/ updateArtifact
    \/ addActivityToArtifact \/ removeActivity \/ updateActivity
    \/ setTitle \/ resetForm \/ handleSave \/ handleEdit \/ handleDelete
    \/ addRelatedRisk \/ removeRelatedRisk
    \/ toggleRiskAssignment
    \/ handleNext \/ handleBack \/ rerunAnalysis

SpecWizard == InitWizard /\ [][NextWizard]_vars

\* ------------------------------------------------------------ properties

InputRoster == Deref(heap, inputRisks)

WorkingRoster == Deref(heap, propagatedRisks)

EnrichedList == Deref(heap, enrichedActivities)

UniqueRiskIds ==
    \A i, j \in DOMAIN inputRisks : heap[inputRisks[i]].id = heap[inputRisks[j]].id => i = j

\* probabilities in [0, 100], strengths (where given) in [0, 1]
ValidRanges ==
    \A i \in DOMAIN inputRisks :
        LET risk == callerView[inputRisks[i]]
        IN  /\ RLe(R(0), risk.probability)
            /\ RLe(risk.probability, R(100))
            /\ \A k \in DOMAIN risk.relatedRisks :
                  LET strength == risk.relatedRisks[k].strength
                  IN  strength # Undefined => RLe(R(0), strength[1]) /\ RLe(strength[1], R(1))

ResultsWithinBounds ==
    \A i \in DOMAIN propagationResults :
        /\ RLe(propagationResults[i].originalProbability, propagationResults[i].finalProbability)
        /\ RLe(propagationResults[i].finalProbability, R(100))

\* no working probability is lower after a step than before it
WorkingProbabilityKept ==
    (propagatedRisks # <<>> /\ propagatedRisks' = propagatedRisks)
        => \A i \in DOMAIN propagatedRisks :
              RLe(heap[propagatedRisks[i]].probability, heap'[propagatedRisks[i]].probability)

\* C1: for every input with probabilities in [0,100] and strengths in
\* [0,1], every propagation result has original <= final <= 100 (and no
\* working probability decreases from one relaxation pass to the next).
C1_PropagationBounds == (pc = "done" /\ ValidRanges) => ResultsWithinBounds

\* two risks carry one id, and the result of the second reports the first's
\* final probability, below the second's own original probability
C1_DuplicateIdWitness ==
    /\ pc = "done"
    /\ ValidRanges
    /\ Len(inputRisks) = 2
    /\ callerView[inputRisks[1]].id = callerView[inputRisks[2]].id
    /\ propagationResults[2].originalProbability = callerView[inputRisks[2]].probability
    /\ propagationResults[2].finalProbability = heap[propagatedRisks[1]].probability
    /\ RLt(propagationResults[2].finalProbability, propagationResults[2].originalProbability)

\* what holds of C1: the bounds for rosters with unique ids, and the
\* per-pass monotonicity for every roster
PropagationBoundsUniqueIds ==
    /\ []((pc = "done" /\ ValidRanges /\ UniqueRiskIds) => ResultsWithinBounds)
    /\ [][ValidRanges => WorkingProbabilityKept]_vars

\* the roster R1 -> R2 (strength 0.5), R1.probability = 80, no other relation
IsC2Roster ==
    /\ Len(inputRisks) = 2
    /\ callerView[inputRisks[1]].id # callerView[inputRisks[2]].id
    /\ callerView[inputRisks[1]].probability = R(80)
    /\ callerView[inputRisks[1]].relatedRisks =
           <<Relation(callerView[inputRisks[2]].id, Some(Rat(1, 2)))>>
    /\ callerView[inputRisks[2]].relatedRisks = <<>>

\* C2: for the roster R1 -> R2 (0.5), R1.probability = 80, the relaxation
\* leaves R2 at exactly original + 40 when that is at most 100 and at 100
\* otherwise, and leaves R1 at 80.
C2_ExactIncrease ==
    (pc = "done" /\ IsC2Roster) =>
        LET original == callerView[inputRisks[2]].probability
            raised == RAdd(original, R(40))
        IN  /\ propagationResults[2].finalProbability =
                   (IF RLe(raised, R(100)) THEN raised ELSE R(100))
            /\ propagationResults[1].finalProbability = R(80)

\* the C2 roster with R2 at 20: the run returns 100 where 20 + 40 = 60 fits
C2_ThreePassesWitness ==
    /\ pc = "done"
    /\ IsC2Roster
    /\ callerView[inputRisks[2]].probability = R(20)
    /\ propagationResults[1].finalProbability = R(80)
    /\ propagationResults[2].finalProbability = R(100)

AllAnalyses == {initialAnalyses, perRiskAnalysis, topRisksByBehaviorScore, topRisksByExpectedImpact}

\* C3: the behaviorScore of every per-risk result is within [0, 100].
C3_ScoreInRange ==
    ValidRanges =>
        \A list \in AllAnalyses :
            \A i \in DOMAIN list :
                RLe(R(0), list[i].behaviorScore) /\ RLe(list[i].behaviorScore, R(100))

\* the weighted sum of a returned risk is negative and its score is 0
C3_Witness ==
    /\ pc = "done"
    /\ \E i \in DOMAIN perRiskAnalysis :
          /\ RLt(RawBehaviorScore(InputRoster[i], initialAnalyses[i].expectedTimeImpact,
                                  initialAnalyses[i].expectedCostImpact, InputRoster,
                                  EnrichedList, maxExpectedTimeImpact, maxExpectedCostImpact),
                 R(0))
          /\ perRiskAnalysis[i].behaviorScore = R(0)
    /\ \E i \in DOMAIN perRiskAnalysis : RGt(perRiskAnalysis[i].behaviorScore, R(50))

\* the id lists of the non-empty selections of roster positions
RECURSIVE IdLists(_, _)
IdLists(roster, k) ==
    IF k = 0 THEN {<<>>}
    ELSE LET shorter == IdLists(roster, k - 1)
         IN  shorter \cup {Append(l, roster[k].id) : l \in shorter}

Selections(roster) == IdLists(roster, Len(roster)) \ {<<>>}

\* C4: the combined time and cost percents of calculateCombinedImpact are at
\* most 200, for the scenarios returned and for every selection of risks.
C4_PercentCapped ==
    /\ \A i \in DOMAIN combinedScenarios :
          /\ RLe(combinedScenarios[i].combinedTimeImpactPercent, R(200))
          /\ RLe(combinedScenarios[i].combinedCostImpactPercent, R(200))
    /\ pc = "done" =>
          \A ids \in Selections(WorkingRoster) :
              LET scenario == calculateCombinedImpact(ids, WorkingRoster, EnrichedList)
              IN  /\ RLe(scenario.combinedTimeImpactPercent, R(200))
                  /\ RLe(scenario.combinedCostImpactPercent, R(200))

\* a returned scenario whose risks' percents add up to more than 200
C4_Witness ==
    /\ pc = "done"
    /\ \E i \in DOMAIN combinedScenarios :
          LET selected == SelectedRisks(combinedScenarios[i].riskIds, WorkingRoster)
          IN  /\ RGt(RSumSeq([k \in DOMAIN selected |-> selected[k].timeImpactPercent]), R(200))
              /\ combinedScenarios[i].combinedTimeImpactPercent = R(200)
              /\ combinedScenarios[i].combinedCostImpactPercent = R(200)

\* the Level-2 activities (positions) that every risk named in ids affects
SharedLevel2(ids, roster, activities) ==
    {a \in DOMAIN activities :
        /\ activities[a].level = 2
        /\ \A r \in DOMAIN roster :
              Includes(ids, roster[r].id) => Includes(roster[r].affectedActivities, activities[a].id)}

IsZeroScenario(scenario) ==
    /\ scenario.combinedTimeImpactPercent = R(0)
    /\ scenario.combinedCostImpactPercent = R(0)
    /\ scenario.combinedExpectedTimeImpact = R(0)
    /\ scenario.combinedExpectedCostImpact = R(0)

\* the scenario is zero when nothing is shared, and otherwise what it is with
\* the activities outside the intersection removed
OnlySharedCount(ids, roster, activities, scenario) ==
    LET shared == SharedLevel2(ids, roster, activities)
        sharedOnly == SelectSeq(activities,
                                LAMBDA a : \E k \in shared : activities[k] = a)
    IN  IF shared = {}
        THEN IsZeroScenario(scenario)
        ELSE scenario = calculateCombinedImpact(ids, roster, sharedOnly)

\* C5: calculateCombinedImpact returns four zero fields whenever no Level-2
\* activity is affected by every risk of the selection; otherwise only the
\* activities of the intersection contribute.
C5_IntersectionOnly ==
    /\ pc \in {"combined", "ranked", "done"} =>
          \A i \in DOMAIN combinedScenarios :
              OnlySharedCount(combinedScenarios[i].riskIds, WorkingRoster, EnrichedList,
                              combinedScenarios[i])
    /\ pc = "done" =>
          \A ids \in Selections(WorkingRoster) :
              OnlySharedCount(ids, WorkingRoster, EnrichedList,
                              calculateCombinedImpact(ids, WorkingRoster, EnrichedList))

\* a returned all-zero scenario of two risks that each affect a Level-2
\* activity, and a run that returned a scenario with a non-zero impact
C5_Witness ==
    /\ pc = "done"
    /\ Len(combinedScenarios) = 1
    /\ IsZeroScenario(combinedScenarios[1])
    /\ \A r \in DOMAIN WorkingRoster :
          SharedLevel2(<<WorkingRoster[r].id>>, WorkingRoster, EnrichedList) # {}

\* durationDays is 0 where the activity has no usable span
NoSpan(activity) ==
    \/ activity.level = 1
    \/ activity.start.kind # "date"
    \/ activity.end.kind # "date"
    \/ activity.start.t > activity.end.t

\* C6: enriching an enriched list yields the same durationDays and
\* baselineCost for every activity; durationDays is 0 for every Level-1
\* activity and for every Level-2 activity whose start or end is missing,
\* unparsable, or whose start is after its end; it is never negative.
C6_EnrichIdempotent ==
    pc # "start" =>
        LET again == enrichActivities(EnrichedList)
        IN  \A i \in DOMAIN EnrichedList :
                /\ again[i].durationDays = EnrichedList[i].durationDays
                /\ again[i].baselineCost = EnrichedList[i].baselineCost
                /\ EnrichedList[i].durationDays # Undefined
                /\ RLe(R(0), EnrichedList[i].durationDays[1])
                /\ NoSpan(EnrichedList[i]) => EnrichedList[i].durationDays = Some(R(0))

\* an enriched Level-2 activity that ends before it starts, with duration 0
C6_Witness ==
    /\ pc = "done"
    /\ \E i \in DOMAIN EnrichedList :
          /\ EnrichedList[i].level = 2
          /\ EnrichedList[i].start.kind = "date"
          /\ EnrichedList[i].end.kind = "date"
          /\ EnrichedList[i].start.t > EnrichedList[i].end.t
          /\ EnrichedList[i].durationDays = Some(R(0))
          /\ EnrichedList[i].baselineCost = Some(R(1000))

\* v for the Level-2 activities the risk lists, 0 for the others
Level2Share(risk, activity, v) ==
    IF activity.level = 2 /\ \E k \in DOMAIN risk.affectedActivities :
                                 risk.affectedActivities[k] = activity.id
    THEN v ELSE R(0)

FollowsFormulas(risk, activities, result) ==
    /\ result.affectedDurationSum =
           RSumSeq([a \in DOMAIN activities |->
                       Level2Share(risk, activities[a], activities[a].durationDays[1])])
    /\ result.affectedCostSum =
           RSumSeq([a \in DOMAIN activities |->
                       Level2Share(risk, activities[a], activities[a].baselineCost[1])])
    /\ result.addedDays =
           RDiv(RMul(result.affectedDurationSum, risk.timeImpactPercent), R(100))
    /\ result.expectedTimeImpact = RDiv(RMul(result.addedDays, risk.probability), R(100))
    /\ result.addedCost =
           RDiv(RMul(result.affectedCostSum, risk.costImpactPercent), R(100))
    /\ result.expectedCostImpact = RDiv(RMul(result.addedCost, risk.probability), R(100))

\* probability 50, time impact 20, cost impact 10, on the 10- and 5-day activities
IsC7Risk(risk) ==
    /\ risk.probability = R(50)
    /\ risk.timeImpactPercent = R(20)
    /\ risk.costImpactPercent = R(10)
    /\ risk.affectedActivities = <<"A-1-1", "A-1-2">>

IsC7Result(result) ==
    /\ result.affectedDurationSum = R(15)
    /\ result.affectedCostSum = R(1500)
    /\ result.addedDays = R(3)
    /\ result.expectedTimeImpact = Rat(3, 2)
    /\ result.addedCost = R(150)
    /\ result.expectedCostImpact = R(75)

\* C7: the result of calculateSingleRisk has affectedDurationSum and
\* affectedCostSum equal to the sums of durationDays and baselineCost over
\* the Level-2 activities the risk lists, addedDays = sum*time%/100,
\* expectedTimeImpact = addedDays*probability/100, addedCost = sum*cost%/100,
\* expectedCostImpact = addedCost*probability/100; the 10/5-day, 1000/500
\* scenario with 50, 20, 10 gives 15, 1500, 3, 1.5, 150, 75.
C7_SingleRiskFormulas ==
    /\ \A i \in DOMAIN initialAnalyses :
          /\ FollowsFormulas(InputRoster[i], EnrichedList, initialAnalyses[i])
          /\ IsC7Risk(InputRoster[i]) => IsC7Result(initialAnalyses[i])
    /\ pc = "scored" =>
          \A i \in DOMAIN perRiskAnalysis :
              /\ FollowsFormulas(InputRoster[i], EnrichedList, perRiskAnalysis[i])
              /\ IsC7Risk(InputRoster[i]) => IsC7Result(perRiskAnalysis[i])

\* the scenario's risk alone in the roster, analysed, with the stated values
C7_Witness ==
    /\ pc = "scored"
    /\ Len(perRiskAnalysis) = 1
    /\ IsC7Risk(InputRoster[1])
    /\ IsC7Result(perRiskAnalysis[1])

\* the risk with another trigger, scored as the analyzer scores it
TwinScore(risk, trigger, maxTime, maxCost) ==
    calculateSingleRisk([risk EXCEPT !.trigger = trigger], EnrichedList, InputRoster,
                        maxTime, maxCost).behaviorScore

DetectabilityAsStated ==
    /\ calculateDetectabilityScore([trigger |-> EmptyString]) = Rat(1, 2)
    /\ calculateDetectabilityScore([trigger |-> BlankString]) = Rat(1, 2)
    /\ calculateDetectabilityScore([trigger |-> SomeText]) = R(1)

Maxima == {<<R(TemporaryMaxTime), R(TemporaryMaxCost)>>,
           <<maxExpectedTimeImpact, maxExpectedCostImpact>>}

\* C8 as stated: of two risks identical but for the trigger, the one with
\* the non-empty trigger has detectability 1 against 0.5 and a strictly
\* higher behavior score.
C8_AsStated ==
    pc = "scored" =>
        /\ DetectabilityAsStated
        /\ \A i \in DOMAIN inputRisks : \A m \in Maxima :
              \A without \in {EmptyString, BlankString} :
                  RGt(TwinScore(InputRoster[i], SomeText, m[1], m[2]),
                      TwinScore(InputRoster[i], without, m[1], m[2]))

\* C8, amended: of two risks identical but for the trigger, the one with
\* the non-empty trigger has detectability 1 against 0.5 and a behavior
\* score that is never higher, and strictly lower whenever the score of the
\* empty-trigger risk is strictly between 0 and 100.
C8_TriggerLowersScore ==
    pc = "scored" =>
        /\ DetectabilityAsStated
        /\ \A i \in DOMAIN inputRisks : \A m \in Maxima :
              \A without \in {EmptyString, BlankString} :
                  LET with == TwinScore(InputRoster[i], SomeText, m[1], m[2])
                      bare == TwinScore(InputRoster[i], without, m[1], m[2])
                  IN  /\ RLe(with, bare)
                      /\ (RLt(R(0), bare) /\ RLt(bare, R(100))) => RLt(with, bare)

\* a scored risk with a trigger whose score is positive and below the score
\* it would have without the trigger
C8_Witness ==
    /\ pc = "scored"
    /\ \E i \in DOMAIN perRiskAnalysis :
          /\ InputRoster[i].trigger = SomeText
          /\ perRiskAnalysis[i].behaviorScore =
                 TwinScore(InputRoster[i], SomeText, maxExpectedTimeImpact, maxExpectedCostImpact)
          /\ RLt(R(0), perRiskAnalysis[i].behaviorScore)
          /\ RLt(perRiskAnalysis[i].behaviorScore,
                 TwinScore(InputRoster[i], EmptyString, maxExpectedTimeImpact,
                           maxExpectedCostImpact))

IsAscending(series) ==
    \A i, j \in DOMAIN series : i <= j => RLe(series[i], series[j])

Occurrences(series, v) == Cardinality({i \in DOMAIN series : series[i] = v})

IsSortOf(sorted, series) ==
    /\ Len(sorted) = Len(series)
    /\ IsAscending(sorted)
    /\ \A i \in DOMAIN series : Occurrences(sorted, series[i]) = Occurrences(series, series[i])

\* ceil(p/100 * n) - 1 clamped to [0, n - 1], in whole numbers
PercentileIndex(p, n) ==
    LET index == ((p * n + 99) \div 100) - 1
    IN  IF index < 0 THEN 0 ELSE IF index > n - 1 THEN n - 1 ELSE index

PercentilesOf(distribution, series) ==
    /\ RLe(distribution.percentiles.p10, distribution.percentiles.p50)
    /\ RLe(distribution.percentiles.p50, distribution.percentiles.p90)
    /\ distribution.percentiles.p10 = series[PercentileIndex(10, Len(series)) + 1]
    /\ distribution.percentiles.p50 = series[PercentileIndex(50, Len(series)) + 1]
    /\ distribution.percentiles.p90 = series[PercentileIndex(90, Len(series)) + 1]

\* C9: for every Monte Carlo run with at least one trial, p10 <= p50 <= p90
\* for the total-cost and the total-duration distribution, each percentile
\* being the element of the ascending-sorted trial series at index
\* ceil(p/100*n)-1 clamped to [0, n-1].
C9_PercentilesOrdered ==
    /\ []((pc = "done" /\ monteCarlo # Undefined) =>
             /\ Len(costResults) >= 1
             /\ PercentilesOf(monteCarlo[1].totalCostDistribution, costResults)
             /\ PercentilesOf(monteCarlo[1].totalDurationDistribution, durationResults))
    /\ [][(pc = "ranked" /\ pc' = "done" /\ enableMonteCarlo) =>
             /\ IsSortOf(costResults', costResults)
             /\ IsSortOf(durationResults', durationResults)]_vars

\* a run of three trials reported with three different cost percentiles
C9_Witness ==
    /\ pc = "done"
    /\ monteCarlo # Undefined
    /\ Len(costResults) = 3
    /\ RLt(monteCarlo[1].totalCostDistribution.percentiles.p10,
           monteCarlo[1].totalCostDistribution.percentiles.p50)
    /\ RLt(monteCarlo[1].totalCostDistribution.percentiles.p50,
           monteCarlo[1].totalCostDistribution.percentiles.p90)
    /\ RLt(monteCarlo[1].totalDurationDistribution.percentiles.p10,
           monteCarlo[1].totalDurationDistribution.percentiles.p90)

\* C10: analyzeRiskBehavior never mutates the caller's input: during and
\* after a run, with or without Monte Carlo, every risk and activity the
\* caller passed in equals its value before the call; probability increases
\* are applied to the run's own copies.
C10_InputUntouched ==
    /\ Len(heap) >= Len(callerView)
    /\ \A ref \in DOMAIN callerView : heap[ref] = callerView[ref]
    /\ \A i \in DOMAIN propagatedRisks : \A j \in DOMAIN inputRisks :
          propagatedRisks[i] # inputRisks[j]
    /\ \A i \in DOMAIN enrichedActivities : \A j \in DOMAIN inputActivities :
          enrichedActivities[i] # inputActivities[j]

\* a finished run with Monte Carlo in which a working copy's probability was
\* raised above the probability of the caller's risk
C10_Witness ==
    /\ pc = "done"
    /\ monteCarlo # Undefined
    /\ \E i \in DOMAIN inputRisks :
          /\ RLt(heap[inputRisks[i]].probability, heap[propagatedRisks[i]].probability)
          /\ heap[inputRisks[i]].probability = callerView[inputRisks[i]].probability

ValidatedActivities == Deref(heap, inputActivities)

ValidatedRisks == Deref(heap, inputRisks)

HasError(field, text) ==
    \E e \in DOMAIN errors[1] : errors[1][e].field = field /\ errors[1][e].message[1] = text

SharesId(list) == \E i, j \in DOMAIN list : i # j /\ list[i].id = list[j].id

ListsUnknownActivity(risk) ==
    \E k \in DOMAIN risk.affectedActivities :
        \A a \in DOMAIN ValidatedActivities :
            ValidatedActivities[a].id # risk.affectedActivities[k]

\* C11: validateInput returns at least one error record whenever two
\* activities share an id, two risks share an id, a risk lists an
\* affectedActivities id that matches no activity, or a risk has an empty
\* affectedActivities list; the errors come back as a list.
C11_DefectsReported ==
    errors # Undefined =>
        /\ DOMAIN errors[1] = 1..Len(errors[1])
        /\ SharesId(ValidatedActivities) =>
              Len(errors[1]) >= 1 /\ HasError("activities", "Duplicate activity ID")
        /\ SharesId(ValidatedRisks) =>
              Len(errors[1]) >= 1 /\ HasError("risks", "Duplicate risk ID")
        /\ \A r \in DOMAIN ValidatedRisks :
              /\ ListsUnknownActivity(ValidatedRisks[r]) =>
                    Len(errors[1]) >= 1 /\ HasError("affectedActivities", "Activity does not exist")
              /\ ValidatedRisks[r].affectedActivities = <<>> =>
                    /\ Len(errors[1]) >= 1
                    /\ HasError("risks", "Risk must have at least one affected activity")

\* an input whose only defect is an activity id used twice, reported once
C11_Witness ==
    /\ errors = Some(<<Error("activities", <<"Duplicate activity ID", "A-1-1">>)>>)
    /\ SharesId(ValidatedActivities)
    /\ ~SharesId(ValidatedRisks)
    /\ Len(ValidatedRisks) = 2

HasDanglingRelation(risk) ==
    \E k \in DOMAIN risk.relatedRisks :
        \A r \in DOMAIN ValidatedRisks : ValidatedRisks[r].id # risk.relatedRisks[k].riskId

\* C12: validateInput reports an error for every risk that has a relation
\* whose riskId matches no risk of the input, so an input for which it
\* returns an empty list has every relatedRisks[].riskId resolving.
C12_DanglingRelationReported ==
    errors # Undefined =>
        /\ \A r \in DOMAIN ValidatedRisks :
              HasDanglingRelation(ValidatedRisks[r]) =>
                  \E e \in DOMAIN errors[1] : errors[1][e].field = "relatedRisks"
        /\ errors[1] = <<>> =>
              \A r \in DOMAIN ValidatedRisks : ~HasDanglingRelation(ValidatedRisks[r])

\* one sound activity and one risk related to R-9, which is not listed:
\* validateInput returns no error
C12_UncheckedWitness ==
    /\ errors = Some(<<>>)
    /\ Len(ValidatedRisks) = 1
    /\ ValidatedRisks[1].relatedRisks = <<Relation("R-9", Some(Rat(1, 2)))>>

SameEntries(view, list) ==
    /\ Len(view) = Len(list)
    /\ \A i \in DOMAIN list :
          Cardinality({k \in DOMAIN view : view[k] = list[i]})
              = Cardinality({k \in DOMAIN list : list[k] = list[i]})

\* C13: in the output, topRisksByBehaviorScore and topRisksByExpectedImpact
\* are each a permutation of perRiskAnalysis, the first in non-increasing
\* order of behaviorScore, the second in non-increasing order of
\* expectedTimeImpact + expectedCostImpact; building them leaves the order
\* of perRiskAnalysis as it was.
C13_SortedViews ==
    /\ [](pc \in {"ranked", "done"} =>
             /\ SameEntries(topRisksByBehaviorScore, perRiskAnalysis)
             /\ SameEntries(topRisksByExpectedImpact, perRiskAnalysis)
             /\ \A i, j \in DOMAIN topRisksByBehaviorScore :
                   i < j => RLe(topRisksByBehaviorScore[j].behaviorScore,
                                topRisksByBehaviorScore[i].behaviorScore)
             /\ \A i, j \in DOMAIN topRisksByExpectedImpact :
                   i < j => RLe(RAdd(topRisksByExpectedImpact[j].expectedTimeImpact,
                                     topRisksByExpectedImpact[j].expectedCostImpact),
                                RAdd(topRisksByExpectedImpact[i].expectedTimeImpact,
                                     topRisksByExpectedImpact[i].expectedCostImpact)))
    /\ [][pc' = "ranked" => perRiskAnalysis' = perRiskAnalysis]_vars

\* a run whose two views are in different orders, one of them not the order
\* of perRiskAnalysis
C13_Witness ==
    /\ pc = "done"
    /\ Len(perRiskAnalysis) = 2
    /\ topRisksByBehaviorScore # topRisksByExpectedImpact
    /\ topRisksByBehaviorScore[1] = perRiskAnalysis[2]
    /\ RLt(perRiskAnalysis[1].behaviorScore, perRiskAnalysis[2].behaviorScore)
    /\ RLt(RAdd(perRiskAnalysis[2].expectedTimeImpact, perRiskAnalysis[2].expectedCostImpact),
           RAdd(perRiskAnalysis[1].expectedTimeImpact, perRiskAnalysis[1].expectedCostImpact))

NoRepeat(path) == \A i, j \in DOMAIN path : path[i] = path[j] => i = j

\* the activations are nested one level at a time, none deeper than 3, and
\* those let through the guard are of risks not on the path that led to them
BoundedRecursion ==
    \A f \in DOMAIN callStack :
        /\ callStack[f].depth = f - 1
        /\ callStack[f].depth <= 3
        /\ Len(callStack[f].path) = callStack[f].depth
        /\ callStack[f].at = "loop" =>
              /\ ~Includes(callStack[f].path, callStack[f].risk.id)
              /\ callStack[f].newPath = Append(callStack[f].path, callStack[f].risk.id)
              /\ NoRepeat(callStack[f].newPath)
              /\ callStack[f].visited = {callStack[f].newPath[i] : i \in DOMAIN callStack[f].newPath}

\* the pass counter only counts up, one at a time, to 3
ThreePasses ==
    /\ pass \in 0..3
    /\ pc \in {"propagated", "recomputed", "combined", "ranked", "done"} => pass = 3
    /\ pc \in {"start", "enriched", "maxima", "scored", "propagate", "returned"} => pass = 0

\* C14: propagation terminates on every relation graph, cycles and
\* self-relations included: the relaxation of analyzeRiskBehavior performs
\* exactly 3 passes whatever the probabilities do, and propagateRisk never
\* recurses deeper than 3 and never re-enters a risk on the current path.
C14_PropagationTerminates ==
    /\ [](BoundedRecursion /\ ThreePasses)
    /\ [][pass' # pass => (pc = "relax" /\ pc' = "relax" /\ pass' = pass + 1)]_vars
    /\ <>(pc \in {"done", "returned"})
    /\ [](CanStep <=> pc \notin {"done", "returned"})
    /\ [](pc = "returned" => callStack = <<>> /\ propagationResult # Undefined)

\* propagateRisk four activations deep in a ring of four: the innermost, at
\* depth 3, is at a relation that is strong enough to propagate
C14_Witness ==
    /\ pc = "propagate"
    /\ Len(callStack) = 4
    /\ callStack[4].depth = 3
    /\ callStack[4].at = "loop"
    /\ callStack[4].newPath = <<"R-1", "R-2", "R-3", "R-4">>
    /\ callStack[4].k = 1
    /\ callStack[4].risk.relatedRisks[1].riskId = "R-1"
    /\ RGt(RMul(Rat(1, 2), callStack[4].risk.probability), Rat(1, 10))

UsesPropagatedProbability(result) ==
    /\ result.expectedTimeImpact =
           RDiv(RMul(result.addedDays, result.propagatedProbability), R(100))
    /\ result.expectedCostImpact =
           RDiv(RMul(result.addedCost, result.propagatedProbability), R(100))

\* C15: for an input with unique risk ids, every per-risk result returned
\* has expectedTimeImpact = addedDays * propagatedProbability / 100 and
\* expectedCostImpact = addedCost * propagatedProbability / 100, where
\* propagatedProbability is the result's own field, the risk's probability
\* after the relaxation.
C15_ImpactsUsePropagated ==
    (pc = "done" /\ UniqueRiskIds) =>
        /\ \A i \in DOMAIN perRiskAnalysis :
              /\ perRiskAnalysis[i].propagatedProbability = WorkingRoster[i].probability
              /\ perRiskAnalysis[i].propagatedProbability = propagationResults[i].finalProbability
              /\ UsesPropagatedProbability(perRiskAnalysis[i])
        /\ \A i \in DOMAIN topRisksByBehaviorScore :
              UsesPropagatedProbability(topRisksByBehaviorScore[i])
        /\ \A i \in DOMAIN topRisksByExpectedImpact :
              UsesPropagatedProbability(topRisksByExpectedImpact[i])

\* a returned result of a risk the relaxation raised from 20 to 50: its
\* expected impacts are those of 50
C15_Witness ==
    /\ pc = "done"
    /\ UniqueRiskIds
    /\ \E i \in DOMAIN perRiskAnalysis :
          /\ InputRoster[i].probability = R(20)
          /\ perRiskAnalysis[i].propagatedProbability = R(50)
          /\ perRiskAnalysis[i].addedDays = R(3)
          /\ perRiskAnalysis[i].expectedTimeImpact = Rat(3, 2)
          /\ initialAnalyses[i].expectedTimeImpact = Rat(3, 5)

\* max(1, maximum over the returned results) of the two expected impacts
ReportedMaxTime ==
    RMaxSeq(R(1), [i \in DOMAIN perRiskAnalysis |-> perRiskAnalysis[i].expectedTimeImpact])

ReportedMaxCost ==
    RMaxSeq(R(1), [i \in DOMAIN perRiskAnalysis |-> perRiskAnalysis[i].expectedCostImpact])

\* the score formula on what the output reports for risk i
ScoreOfReported(i) ==
    calculateBehaviorScore(WorkingRoster[i], perRiskAnalysis[i].expectedTimeImpact,
                           perRiskAnalysis[i].expectedCostImpact, WorkingRoster, EnrichedList,
                           ReportedMaxTime, ReportedMaxCost)

\* the score formula on the impacts of the original probabilities
ScoreOfOriginal(i) ==
    calculateBehaviorScore(InputRoster[i], initialAnalyses[i].expectedTimeImpact,
                           initialAnalyses[i].expectedCostImpact, InputRoster, EnrichedList,
                           maxExpectedTimeImpact, maxExpectedCostImpact)

\* C16: the behaviorScore returned for each risk equals the behavior-score
\* formula evaluated on the expectedTimeImpact and expectedCostImpact of the
\* same output (those of the propagated probability), normalized by
\* max(1, maximum of that quantity over the returned results).
C16_ScoreFromPropagated ==
    pc = "done" =>
        \A i \in DOMAIN perRiskAnalysis : perRiskAnalysis[i].behaviorScore = ScoreOfReported(i)

\* R1 (80) -> R2 (20) with strength 0.5: R2 is returned with the impacts of
\* probability 100 and the score of probability 20
C16_StaleScoreWitness ==
    /\ pc = "done"
    /\ IsC2Roster
    /\ InputRoster[2].probability = R(20)
    /\ perRiskAnalysis[2].propagatedProbability = R(100)
    /\ perRiskAnalysis[2].expectedTimeImpact = R(3)
    /\ perRiskAnalysis[2].behaviorScore = ScoreOfOriginal(2)
    /\ RLt(perRiskAnalysis[2].behaviorScore, ScoreOfReported(2))

\* every relation of the roster is one a risk holds to itself, and there is one
OnlySelfRelations ==
    /\ UniqueRiskIds
    /\ \A i \in DOMAIN InputRoster : \A k \in DOMAIN InputRoster[i].relatedRisks :
          InputRoster[i].relatedRisks[k].riskId = InputRoster[i].id
    /\ \E i \in DOMAIN InputRoster : InputRoster[i].relatedRisks # <<>>

\* C17: in the roster-wide relaxation only other risks contribute to a
\* risk's probability: a relation a risk holds to itself never increases its
\* probability, so a roster whose only relations are self-relations ends
\* with every final probability equal to the original.
C17_SelfRelationIgnored ==
    (pc = "done" /\ OnlySelfRelations) =>
        \A i \in DOMAIN propagationResults :
            propagationResults[i].finalProbability = propagationResults[i].originalProbability

\* one risk of probability 20 related to itself with strength 0.5:
\* 20 -> 30 -> 45 -> 67.5
C17_SelfRaisedWitness ==
    /\ pc = "done"
    /\ OnlySelfRelations
    /\ Len(propagationResults) = 1
    /\ propagationResults[1].originalProbability = R(20)
    /\ propagationResults[1].finalProbability = Rat(135, 2)

\* probabilities of O to take the step at: below, at and above the threshold
\* for strengths 0.5 and 0.3, and one that reaches the cap
ProbedProbabilities == {R(0), Rat(1, 5), Rat(1, 4), Rat(1, 3), Rat(2, 5), R(80)}

\* the relations of O that name R
RelationsTo(other, id) ==
    {k \in DOMAIN other.relatedRisks : other.relatedRisks[k].riskId = id}

\* what C18 says of one step: h is the heap before, after the heap after
StepAsStated(h, after, currentRef, otherRef) ==
    LET other == h[otherRef]
        naming == RelationsTo(other, h[currentRef].id)
    IN  IF naming = {} THEN after = h
        ELSE LET first == CHOOSE k \in naming : \A j \in naming : k <= j
                 given == other.relatedRisks[first].strength
                 s == IF given = Undefined THEN Rat(3, 10) ELSE given[1]
                 increase == RMul(s, other.probability)
                 raised == RAdd(h[currentRef].probability, increase)
             IN  IF RLe(increase, Rat(1, 10)) THEN after = h
                 ELSE /\ after[currentRef].probability =
                             (IF RLt(raised, R(100)) THEN raised ELSE R(100))
                      /\ after = [h EXCEPT ![currentRef].probability =
                                               after[currentRef].probability]

\* C18: in each relaxation step for a relation O->R with strength s (0.3
\* when the relation has none), the increase is s * current probability of
\* O; when it is <= 0.1 R's probability is left unchanged, and when it is
\* > 0.1 R's probability becomes exactly min(100, previous probability of R
\* + increase).
C18_RelaxationStep ==
    pc = "relax" =>
        \A c, o \in DOMAIN propagatedRisks :
            LET currentRef == propagatedRisks[c]
                otherRef == propagatedRisks[o]
            IN  /\ StepAsStated(heap,
                                ApplyRelation(heap, currentRef, otherRef, heap[currentRef].id),
                                currentRef, otherRef)
                /\ \A q \in ProbedProbabilities :
                      LET h == [heap EXCEPT ![otherRef].probability = q]
                      IN  StepAsStated(h, ApplyRelation(h, currentRef, otherRef, h[currentRef].id),
                                       currentRef, otherRef)

\* after the first pass over two risks, the second related to the first
\* without a strength: the first went from 20 to 20 + 0.3 * 40 = 32
C18_Witness ==
    /\ pc = "relax"
    /\ pass = 1
    /\ Len(propagatedRisks) = 2
    /\ WorkingRoster[2].relatedRisks = <<Relation(WorkingRoster[1].id, Undefined)>>
    /\ InputRoster[1].probability = R(20)
    /\ WorkingRoster[2].probability = R(40)
    /\ WorkingRoster[1].probability = R(32)

\* probabilitySensitivity as C19 states it, from the fields of one result
SensitivityAsStated(result) ==
    IF RGt(result.propagatedProbability, R(0))
    THEN RDiv(result.expectedCostImpact, result.propagatedProbability)
    ELSE R(0)

\* C19: for every per-risk result returned by analyzeRiskBehavior,
\* sensitivity.probabilitySensitivity equals the result's expectedCostImpact
\* divided by the probability reported in that result
\* (propagatedProbability) when that probability is greater than 0, and is 0
\* when that probability is 0; no division by zero occurs.
C19_SensitivityOfReported ==
    pc = "done" =>
        /\ \A i \in DOMAIN perRiskAnalysis :
              /\ ~IsNaN(perRiskAnalysis[i].sensitivity.probabilitySensitivity)
              /\ perRiskAnalysis[i].sensitivity.probabilitySensitivity =
                     SensitivityAsStated(perRiskAnalysis[i])
        /\ \A i \in DOMAIN topRisksByBehaviorScore :
              topRisksByBehaviorScore[i].sensitivity.probabilitySensitivity =
                  SensitivityAsStated(topRisksByBehaviorScore[i])
        /\ \A i \in DOMAIN topRisksByExpectedImpact :
              topRisksByExpectedImpact[i].sensitivity.probabilitySensitivity =
                  SensitivityAsStated(topRisksByExpectedImpact[i])

\* a returned result of a risk with original probability 0 that the
\* relaxation raised: expectedCostImpact and propagatedProbability are
\* positive, the sensitivity is still the 0 of step 4
C19_StaleSensitivityWitness ==
    /\ pc = "done"
    /\ UniqueRiskIds
    /\ \E i \in DOMAIN perRiskAnalysis :
          /\ InputRoster[i].probability = R(0)
          /\ RGt(perRiskAnalysis[i].propagatedProbability, R(0))
          /\ RGt(perRiskAnalysis[i].expectedCostImpact, R(0))
          /\ perRiskAnalysis[i].sensitivity.probabilitySensitivity = R(0)

\* expectedTimeImpact + expectedCostImpact of risk i at the probability the
\* relaxation left it with
PostPropagationImpact(i) ==
    RAdd(RDiv(RMul(perRiskAnalysis[i].addedDays, WorkingRoster[i].probability), R(100)),
         RDiv(RMul(perRiskAnalysis[i].addedCost, WorkingRoster[i].probability), R(100)))

IdSet(riskIds) == {riskIds[k] : k \in DOMAIN riskIds}

\* ids is a choice of the largest: no risk left out has a larger impact
\* than one taken
IsLargest(ids) ==
    \A i, j \in DOMAIN perRiskAnalysis :
        (perRiskAnalysis[i].riskId \in ids /\ perRiskAnalysis[j].riskId \notin ids) =>
            RLe(PostPropagationImpact(j), PostPropagationImpact(i))

\* scenario k is the combined impact of the risks it lists
IsScenarioOf(k) ==
    combinedScenarios[k] =
        calculateCombinedImpact(combinedScenarios[k].riskIds, WorkingRoster, EnrichedList)

\* C20: for an input with unique risk ids, analyzeRiskBehavior selects the
\* (up to) three risks with the largest post-propagation expectedTimeImpact
\* + expectedCostImpact and returns combined scenarios for exactly every
\* unordered pair of them followed by the triple: 0 scenarios for fewer than
\* 2 risks, 1 for exactly 2 risks, 4 for 3 or more risks, and no scenario
\* includes a risk outside the selected three.
C20_TopThreeScenarios ==
    (pc = "done" /\ UniqueRiskIds) =>
        LET n == Len(perRiskAnalysis)
            all == {perRiskAnalysis[i].riskId : i \in DOMAIN perRiskAnalysis}
        IN  /\ \A k \in DOMAIN combinedScenarios : IsScenarioOf(k)
            /\ n < 2 => combinedScenarios = <<>>
            /\ n = 2 => /\ Len(combinedScenarios) = 1
                        /\ Len(combinedScenarios[1].riskIds) = 2
                        /\ IdSet(combinedScenarios[1].riskIds) = all
            /\ n >= 3 =>
                  /\ Len(combinedScenarios) = 4
                  /\ LET selected == IdSet(combinedScenarios[4].riskIds)
                     IN  /\ Len(combinedScenarios[4].riskIds) = 3
                         /\ Cardinality(selected) = 3
                         /\ selected \subseteq all
                         /\ IsLargest(selected)
                         /\ \A k \in 1..3 : Len(combinedScenarios[k].riskIds) = 2
                         /\ {IdSet(combinedScenarios[k].riskIds) : k \in 1..3} =
                                {pair \in SUBSET selected : Cardinality(pair) = 2}

\* four risks, the first at 20 and behind two risks at 40 before the
\* relaxation, raised by the fourth: it is selected and the fourth is not
C20_Witness ==
    /\ pc = "done"
    /\ UniqueRiskIds
    /\ Len(perRiskAnalysis) = 4
    /\ Len(combinedScenarios) = 4
    /\ InputRoster[1].probability = R(20)
    /\ InputRoster[2].probability = R(40)
    /\ InputRoster[3].probability = R(40)
    /\ RGt(WorkingRoster[1].probability, R(40))
    /\ IdSet(combinedScenarios[4].riskIds) = {"R-1", "R-2", "R-3"}
    /\ RLt(PostPropagationImpact(4), PostPropagationImpact(2))

\* the activities as the caller passed them
InputActivityList == Deref(callerView, inputActivities)

Level1Ids(activities) ==
    {activities[i].id : i \in {j \in DOMAIN activities : activities[j].level = 1}}

\* the Level-1 activities given a cost, dates, or both
Level1Variants(activities) ==
    {[i \in DOMAIN activities |->
         IF activities[i].level = 1
         THEN [activities[i] EXCEPT !.cost = v.cost, !.start = v.start, !.end = v.end]
         ELSE activities[i]] :
     v \in {[cost |-> R(700), start |-> EmptyString, end |-> EmptyString],
            [cost |-> R(700), start |-> Day(0), end |-> Day(10)]}}

\* the risk with every given id taken out of affectedActivities when it is
\* there and added when it is not
RECURSIVE ToggleIds(_, _)
ToggleIds(risk, ids) ==
    IF ids = {} THEN risk
    ELSE LET id == CHOOSE x \in ids : TRUE
             affected == risk.affectedActivities
             toggled == IF Includes(affected, id)
                        THEN SelectSeq(affected, LAMBDA x : x # id)
                        ELSE Append(affected, id)
         IN  ToggleIds([risk EXCEPT !.affectedActivities = toggled], ids \ {id})

SumsAndImpacts(analysis) ==
    <<analysis.affectedDurationSum, analysis.affectedCostSum, analysis.addedDays,
      analysis.expectedTimeImpact, analysis.addedCost, analysis.expectedCostImpact>>

OneDraw == [occurs : UniformDraws, time : UniformDraws, cost : UniformDraws]

\* the sums and impacts of risk i in the finished analysis are those of the
\* given original and propagated risk over the given activities
SameSumsFor(i, original, working, enriched) ==
    LET durationSum == getAffectedDurationSum(original, enriched)
        costSum == getAffectedCostSum(original, enriched)
        initialTime == calculateTimeImpact(original, durationSum)
        initialCost == calculateCostImpact(original, costSum)
        time == calculateTimeImpact(working, durationSum)
        cost == calculateCostImpact(working, costSum)
    IN  /\ SumsAndImpacts(initialAnalyses[i]) =
               <<durationSum, costSum, initialTime.addedDays, initialTime.expectedTimeImpact,
                 initialCost.addedCost, initialCost.expectedCostImpact>>
        /\ SumsAndImpacts(perRiskAnalysis[i]) =
               <<durationSum, costSum, time.addedDays, time.expectedTimeImpact,
                 cost.addedCost, cost.expectedCostImpact>>
        /\ \A d \in OneDraw :
              runIteration(<<working>>, enriched, <<d>>) =
                  runIteration(<<WorkingRoster[i]>>, EnrichedList, <<d>>)

\* C21: Level-1 activities never contribute to any duration or cost sum:
\* changing the cost or dates of a Level-1 activity, or adding or removing a
\* Level-1 activity id in any risk's affectedActivities, leaves every
\* affectedDurationSum, affectedCostSum, added/expected time and cost
\* impact, combined-scenario result and Monte Carlo baseline total
\* unchanged.
C21_Level1NeverCounts ==
    (pc = "done" /\ UniqueRiskIds) =>
        LET ids == Level1Ids(InputActivityList)
        IN  \A activities \in Level1Variants(InputActivityList) \cup {InputActivityList} :
                LET enriched == enrichActivities(activities)
                IN  /\ runIteration(<<>>, enriched, <<>>) =
                           runIteration(<<>>, EnrichedList, <<>>)
                    /\ \A i \in DOMAIN perRiskAnalysis :
                          /\ SameSumsFor(i, InputRoster[i], WorkingRoster[i], enriched)
                          /\ SameSumsFor(i, ToggleIds(InputRoster[i], ids),
                                         ToggleIds(WorkingRoster[i], ids), enriched)
                    /\ \A which \in SUBSET DOMAIN propagatedRisks :
                          CombinedScenariosOf(
                              Top3Risks(perRiskAnalysis),
                              [i \in DOMAIN propagatedRisks |->
                                  IF i \in which THEN ToggleIds(WorkingRoster[i], ids)
                                  ELSE WorkingRoster[i]],
                              enriched) = combinedScenarios

\* a finished analysis of three risks over an artifact and its two
\* activities: the sums are those of the two activities, 15 days and 1500
C21_Witness ==
    /\ pc = "done"
    /\ UniqueRiskIds
    /\ Level1Ids(InputActivityList) = {"A-1"}
    /\ Len(combinedScenarios) = 4
    /\ perRiskAnalysis[1].affectedDurationSum = R(15)
    /\ perRiskAnalysis[1].affectedCostSum = R(1500)
    /\ ~Includes(InputRoster[1].affectedActivities, "A-1")
    /\ Includes(ToggleIds(InputRoster[1], {"A-1"}).affectedActivities, "A-1")
    /\ \E k \in DOMAIN combinedScenarios : RGt(combinedScenarios[k].combinedExpectedCostImpact, R(0))

\* what the finished call returns
ReturnedOutput ==
    [perRiskAnalysis |-> perRiskAnalysis,
     propagationResults |-> propagationResults,
     combinedScenarios |-> combinedScenarios,
     topRisksByBehaviorScore |-> topRisksByBehaviorScore,
     topRisksByExpectedImpact |-> topRisksByExpectedImpact]

\* the steps of the analyzer compute the function analyzeRiskBehavior of the
\* input the caller passed
OutputIsFunctionOfInput ==
    pc = "done" => ReturnedOutput = analyzeRiskBehavior(InputActivityList, InputRoster)

\* the roster without the affectedActivities ids that match no activity and
\* without the relations whose riskId matches no risk
Resolved(activities, risks) ==
    [i \in DOMAIN risks |->
        [risks[i] EXCEPT
            !.affectedActivities =
                SelectSeq(@, LAMBDA id : \E a \in DOMAIN activities : activities[a].id = id),
            !.relatedRisks =
                SelectSeq(@, LAMBDA rel : \E r \in DOMAIN risks : risks[r].id = rel.riskId)]]

\* C22: unresolvable references are simply excluded: for any input,
\* analyzeRiskBehavior (without Monte Carlo) returns the same per-risk
\* results, propagation results and combined scenarios as for the same
\* input from which every affectedActivities id that matches no activity
\* and every relation whose riskId matches no risk has been removed.
C22_UnresolvedExcluded ==
    pc = "done" =>
        LET clean == analyzeRiskBehavior(InputActivityList,
                                         Resolved(InputActivityList, InputRoster))
        IN  /\ perRiskAnalysis = clean.perRiskAnalysis
            /\ propagationResults = clean.propagationResults
            /\ combinedScenarios = clean.combinedScenarios

\* a finished analysis of an input with a relation to a risk that is not in
\* the roster: removing the relation changes a behavior score and nothing
\* else
C22_DanglingCountsWitness ==
    /\ pc = "done"
    /\ UniqueRiskIds
    /\ Resolved(InputActivityList, InputRoster) # InputRoster
    /\ LET clean == analyzeRiskBehavior(InputActivityList,
                                        Resolved(InputActivityList, InputRoster))
       IN  /\ propagationResults = clean.propagationResults
           /\ combinedScenarios = clean.combinedScenarios
           /\ \E i \in DOMAIN perRiskAnalysis :
                 /\ perRiskAnalysis[i].behaviorScore # clean.perRiskAnalysis[i].behaviorScore
                 /\ [perRiskAnalysis[i] EXCEPT !.behaviorScore = R(0)] =
                        [clean.perRiskAnalysis[i] EXCEPT !.behaviorScore = R(0)]

\* the first occurrence of every id of the list, in order
RECURSIVE WithoutRepeats(_)
WithoutRepeats(ids) ==
    IF ids = <<>> THEN <<>>
    ELSE LET front == WithoutRepeats(SubSeq(ids, 1, Len(ids) - 1))
             last == ids[Len(ids)]
         IN  IF Includes(front, last) THEN front ELSE Append(front, last)

\* the ids of the risks propagateRisk works on, in the order it comes to
\* them: the risk itself unless the guard turns it away, then, relation by
\* relation from k on, the risks it recurses into
RECURSIVE Traversal(_, _, _, _, _)
Traversal(risk, visited, depth, k, entering) ==
    IF entering
    THEN IF depth > 3 \/ risk.id \in visited THEN <<>>
         ELSE <<risk.id>> \o Traversal(risk, visited \cup {risk.id}, depth, 1, FALSE)
    ELSE IF k > Len(risk.relatedRisks) THEN <<>>
    ELSE LET relation == risk.relatedRisks[k]
             resolved == {i \in DOMAIN InputRoster : InputRoster[i].id = relation.riskId}
             rest == Traversal(risk, visited, depth, k + 1, FALSE)
         IN  IF resolved = {} THEN rest
             ELSE LET related == InputRoster[CHOOSE i \in resolved : \A j \in resolved : i <= j]
                      s == IF relation.strength = Undefined THEN Rat(3, 10)
                           ELSE relation.strength[1]
                      increase == RMul(s, risk.probability)
                      raised == RAdd(related.probability, increase)
                      new == IF RLt(raised, R(100)) THEN raised ELSE R(100)
                  IN  IF /\ RGt(increase, Rat(1, 10))
                         /\ depth < 3
                         /\ RGt(RSub(new, related.probability), Rat(1, 10))
                      THEN Traversal([related EXCEPT !.probability = new], visited,
                                     depth + 1, 1, TRUE) \o rest
                      ELSE rest

\* the path C23 describes for propagateRisk(source, allRisks)
PathReached == WithoutRepeats(Traversal(InputRoster[1], {}, 0, 1, TRUE))

\* C23: the recursive single-source propagateRisk returns the actual
\* propagation path: when the source's probability propagates to at least
\* one related risk (increase > 0.1 and recursion performed), the
\* propagationPath of the result returned to the caller lists the source
\* followed by the ids of the risks the propagation reached, in traversal
\* order, without repeated ids.
C23_PathReturned ==
    (pc = "returned" /\ Len(PathReached) > 1) =>
        propagationResult[1].propagationPath = PathReached

\* propagateRisk on the first of a ring of four has returned: the
\* propagation went through all four and raised the final probability, the
\* path returned holds the source alone
C23_SourceOnlyWitness ==
    /\ pc = "returned"
    /\ Len(inputRisks) = 4
    /\ PathReached = <<"R-1", "R-2", "R-3", "R-4">>
    /\ RGt(propagationResult[1].finalProbability, propagationResult[1].originalProbability)
    /\ propagationResult[1].propagationPath = <<"R-1">>

\* a Level-1 activity as addArtifact makes it and the first step lets it
\* through: id and title filled in, no dates, no cost
IsArtifact(activity) ==
    /\ activity.level = 1
    /\ ~IdIsMissing(activity.id)
    /\ ~TextIsMissing(activity.title)
    /\ activity.start = EmptyString
    /\ activity.end = EmptyString
    /\ activity.cost = R(0)

\* the list with a date put into every artifact
WithDatedArtifacts(activities) ==
    [i \in DOMAIN activities |->
        IF IsArtifact(activities[i])
        THEN [activities[i] EXCEPT !.start = Day(0), !.end = Day(0)]
        ELSE activities[i]]

\* the input is valid but for what the validator makes of its artifacts
OtherwiseValid ==
    validateInput(WithDatedArtifacts(ValidatedActivities), ValidatedRisks) = <<>>

\* C24: validateInput reports no error for a Level-1 activity shaped as the
\* data model defines an artifact (non-empty unique id, non-empty title,
\* level 1, empty start and end, cost 0), so an otherwise valid input
\* containing such artifacts validates with an empty error list.
C24_ArtifactsValidate ==
    (errors # Undefined /\ OtherwiseValid) => errors[1] = <<>>

\* an artifact, one dated activity and one risk on it, validated: the two
\* errors are the artifact's missing dates
C24_ArtifactRejectedWitness ==
    /\ errors # Undefined
    /\ OtherwiseValid
    /\ Len(ValidatedActivities) = 2
    /\ IsArtifact(ValidatedActivities[1])
    /\ ~IsArtifact(ValidatedActivities[2])
    /\ Len(ValidatedRisks) = 1
    /\ errors[1] = <<Error("start", <<"Start date is required">>),
                     Error("end", <<"End date is required">>)>>

\* id lists that name no risk of a roster
UnmatchedIdLists == {<<>>, <<"R-9">>, <<"R-8", "R-9">>}

IsWellDefined(scenario) ==
    /\ ~IsNaN(scenario.combinedTimeImpactPercent)
    /\ ~IsNaN(scenario.combinedCostImpactPercent)
    /\ ~IsNaN(scenario.combinedExpectedTimeImpact)
    /\ ~IsNaN(scenario.combinedExpectedCostImpact)

\* C29: calculateCombinedImpact never computes an average probability over
\* an empty selection: for every riskIds list, including one where no id
\* matches a risk of the roster, all numeric fields of the returned scenario
\* are well-defined numbers (no 0/0), and every call made by
\* analyzeRiskBehavior passes ids that all resolve in the roster.
C29_NoEmptyAverage ==
    pc = "done" =>
        /\ \A ids \in Selections(WorkingRoster) \cup UnmatchedIdLists :
              IsWellDefined(calculateCombinedImpact(ids, WorkingRoster, EnrichedList))
        /\ \A k \in DOMAIN combinedScenarios :
              /\ IsWellDefined(combinedScenarios[k])
              /\ \A j \in DOMAIN combinedScenarios[k].riskIds :
                    \E r \in DOMAIN WorkingRoster :
                        WorkingRoster[r].id = combinedScenarios[k].riskIds[j]

\* over the two dated activities, the scenario of a list that names no risk
\* of a roster of three has 0/0 as its expected impacts, while the four
\* scenarios the analyzer returned are numbers
C29_EmptySelectionWitness ==
    /\ pc = "done"
    /\ Len(WorkingRoster) = 3
    /\ Len(combinedScenarios) = 4
    /\ \A k \in DOMAIN combinedScenarios : IsWellDefined(combinedScenarios[k])
    /\ SelectedRisks(<<"R-9">>, WorkingRoster) = <<>>
    /\ Len(CommonActivities(<<>>, EnrichedList)) = 2
    /\ IsNaN(calculateCombinedImpact(<<"R-9">>, WorkingRoster, EnrichedList).combinedExpectedTimeImpact)
    /\ IsNaN(calculateCombinedImpact(<<"R-9">>, WorkingRoster, EnrichedList).combinedExpectedCostImpact)

\* C28: for an input with unique risk ids, perRiskAnalysis and
\* propagationResults each contain exactly one entry per input risk, in
\* input order, and for every index i: propagationResults[i].riskId =
\* perRiskAnalysis[i].riskId = input.risks[i].id,
\* propagationResults[i].originalProbability = input.risks[i].probability,
\* and perRiskAnalysis[i].propagatedProbability =
\* propagationResults[i].finalProbability.
C28_OneEntryPerRisk ==
    (pc = "done" /\ UniqueRiskIds) =>
        LET input == Deref(callerView, inputRisks)
        IN  /\ Len(perRiskAnalysis) = Len(input)
            /\ Len(propagationResults) = Len(input)
            /\ \A i \in DOMAIN input :
                  /\ propagationResults[i].riskId = input[i].id
                  /\ perRiskAnalysis[i].riskId = input[i].id
                  /\ propagationResults[i].originalProbability = input[i].probability
                  /\ perRiskAnalysis[i].propagatedProbability =
                         propagationResults[i].finalProbability

\* a finished analysis of four risks with the first raised by the others:
\* its entry is the first of both lists and reports 20 and the raised value
C28_Witness ==
    /\ pc = "done"
    /\ UniqueRiskIds
    /\ Len(inputRisks) = 4
    /\ Len(propagationResults) = 4
    /\ propagationResults[1].riskId = "R-1"
    /\ propagationResults[1].originalProbability = R(20)
    /\ RGt(propagationResults[1].finalProbability, R(20))
    /\ perRiskAnalysis[1].propagatedProbability = propagationResults[1].finalProbability
    /\ propagationResults[4].riskId = "R-4"

\* the orders a roster of n risks can be given in
RosterOrders(n) ==
    {f \in [1..n -> 1..n] : \A i, j \in 1..n : f[i] = f[j] => i = j}

\* <<id, final probability>> for every risk of the roster, after the three
\* passes on a copy of it
FinalProbabilities(risks) ==
    LET inRefs == [i \in DOMAIN risks |-> i]
        copy == CopyRoster(risks, inRefs)
        h == Relaxed(copy.heap, inRefs, copy.refs, 0)
    IN  {<<risks[i].id, h[copy.refs[i]].probability>> : i \in DOMAIN risks}

ReturnedProbabilities ==
    {<<propagationResults[i].riskId, propagationResults[i].finalProbability>> :
        i \in DOMAIN propagationResults}

\* every order of the input roster gives the final probabilities returned
SameInEveryOrder ==
    \A f \in RosterOrders(Len(InputRoster)) :
        FinalProbabilities([i \in DOMAIN InputRoster |-> InputRoster[f[i]]]) =
            ReturnedProbabilities

\* risk r is the target of a relation of a risk of the roster
IsTarget(r, roster) ==
    \E o \in DOMAIN roster : \E k \in DOMAIN roster[o].relatedRisks :
        roster[o].relatedRisks[k].riskId = roster[r].id

\* no risk that a relation raises has a relation of its own to a risk of
\* the roster
NoChains(roster) ==
    \A r \in DOMAIN roster :
        IsTarget(r, roster) =>
            \A k \in DOMAIN roster[r].relatedRisks :
                \A t \in DOMAIN roster : roster[t].id # roster[r].relatedRisks[k].riskId

\* C27 as stated: the final probabilities produced by the roster-wide
\* relaxation do not depend on the order of the risks in the input roster:
\* for every permutation of the same set of risks (unique ids), each risk id
\* gets the same finalProbability.
C27_AsStated ==
    (pc = "done" /\ UniqueRiskIds) => SameInEveryOrder

\* C27, amended: for every permutation of the same set of risks (unique
\* ids), each risk id gets the same finalProbability when no risk that is
\* the target of a relation has itself a relation to a risk of the roster;
\* with a chain O->R->T the final probabilities depend on the order.
C27_OrderFreeWithoutChains ==
    (pc = "done" /\ UniqueRiskIds /\ NoChains(InputRoster)) => SameInEveryOrder

\* three risks, the second and the third both related to the first, which
\* has no relation: it went from 4 to 4 + 3 * (4 + 6) = 34 in this order as
\* in the others
C27_Witness ==
    /\ pc = "done"
    /\ UniqueRiskIds
    /\ Len(InputRoster) = 3
    /\ NoChains(InputRoster)
    /\ InputRoster[2].relatedRisks = <<Relation("R-1", Some(Rat(1, 2)))>>
    /\ InputRoster[3].relatedRisks = <<Relation("R-1", Some(Rat(1, 2)))>>
    /\ propagationResults[1].originalProbability = R(4)
    /\ propagationResults[1].finalProbability = R(34)
    /\ propagationResults[2].finalProbability = R(8)


\* the results step shows the analysis of the lists the page holds
ResultsAreCurrent ==
    page.currentStep = 3 =>
        /\ page.analysisOutput # Undefined
        /\ page.analysisOutput = Some(analyzeRiskBehavior(page.activities, page.risks))

\* a step change is one step forward from a step that may proceed, or one step back
StepsOneAtATime ==
    page'.currentStep # page.currentStep =>
        \/ page'.currentStep = page.currentStep + 1 /\ canProceed
        \/ page'.currentStep = page.currentStep - 1

\* C30: the step index stays within 0..3, the step index rises only by one and only
\* from a step whose canProceed holds, and while the results step is shown
\* analysisOutput is non-null and equals the analysis of the current activities and risks
C30_WizardSteps ==
    /\ [](page.currentStep \in 0..3)
    /\ [][StepsOneAtATime]_vars
    /\ []ResultsAreCurrent

\* the results step shows the analysis of a risk assigned to the activity A-2-1 of the
\* second artifact, which the first analysis of a session cannot have seen
C30_Witness ==
    /\ page.currentStep = 3
    /\ page.analysisOutput # Undefined
    /\ Len(page.analysisOutput[1].perRiskAnalysis) = 1
    /\ \E k \in DOMAIN page.activities : page.activities[k].id = "A-2-1"
    /\ page.risks[1].affectedActivities = <<"A-2-1">>
    /\ page.analysisOutput = Some(analyzeRiskBehavior(page.activities, page.risks))


\* no two elements of the list carry the same id
UniqueIds(list) == \A i, j \in DOMAIN list : list[i].id = list[j].id => i = j

\* C26: after any sequence of add and delete operations of the activity and risk
\* steps no two activities of the page share an id and no two risks share an id
C26_IdsStayUnique == UniqueIds(page.activities) /\ UniqueIds(page.risks)

\* artifact A-1 of two was removed and the next artifact was numbered from the count:
\* the list holds two artifacts with the id A-2
C26_RepeatedIdWitness ==
    /\ Len(page.activities) = 2
    /\ page.activities[1].id = "A-2" /\ page.activities[2].id = "A-2"
    /\ page.activities[1].level = 1 /\ page.activities[2].level = 1

\* every affectedActivities id is the id of an activity of the list and every
\* relatedRisks riskId is the id of a risk of the list
FullyFormed(activityList, riskList) ==
    \A r \in DOMAIN riskList :
        /\ \A a \in DOMAIN riskList[r].affectedActivities :
            \E k \in DOMAIN activityList :
                activityList[k].id = riskList[r].affectedActivities[a]
        /\ \A d \in DOMAIN riskList[r].relatedRisks :
            \E k \in DOMAIN riskList : riskList[k].id = riskList[r].relatedRisks[d].riskId

\* handleStepChange runs the analysis: the step goes from 2 to 3
RunsAnalysis == page.currentStep = 2 /\ page'.currentStep = 3

\* C25: whenever the page calls analyzeRiskBehavior, every affectedActivities id of every
\* risk is the id of an activity that still exists and every relatedRisks riskId is the
\* id of a risk that still exists
C25_CallsFullyFormed == [][RunsAnalysis => FullyFormed(page.activities, page.risks)]_vars

\* the results step shows the analysis of a risk whose only affected activity, A-2-1,
\* left the list with its artifact
C25_DanglingAnalysedWitness ==
    /\ page.currentStep = 3
    /\ page.analysisOutput = Some(analyzeRiskBehavior(page.activities, page.risks))
    /\ page.risks[1].affectedActivities = <<"A-2-1">>
    /\ \A k \in DOMAIN page.activities : page.activities[k].id # "A-2-1"

====
